---------------------------- MODULE Spec2Model ----------------------------
(***************************************************************************)
(* A model of orbit's concurrent application engine:                       *)
(*   - the State Store (src/core/state.rs): AppState behind an RwLock,     *)
(*   - the Orchestrator (src/core/app.rs): run(), the event loop and its   *)
(*     handlers, as functions on the App (the store's state, the focus     *)
(*     controller slot, the timer tasks, the event bus, the execution      *)
(*     tasks),                                                             *)
(*   - the Focus Session Controller (src/focus/mod.rs): enter, the timer   *)
(*     task's select between its 1-second tick and the cancel signal, exit,*)
(*   - the Action Execution Pipeline (src/actions/mod.rs):                 *)
(*     execute_with_pty, its reader thread and the bounded sink.           *)
(*                                                                         *)
(* Texts are taken character by character, so that to_lowercase, contains  *)
(* and strip_ansi_codes are computed as the code computes them.            *)
(***************************************************************************)
EXTENDS Integers, Sequences, FiniteSets, TLC

(***************************************************************************)
(* Bounds of the model.                                                    *)
(***************************************************************************)
\* Longest list a collaborator returns (containers, ports, env variables).
MaxLen == 2
\* Most project scripts the detection collaborator returns.
MaxScripts == 2
\* Longest palette filter typed.
MaxFilter == 1
\* Most lines held by the output panel in the orchestrator's scenarios.
MaxOutput == 6
\* Most events waiting on the event bus.
MaxQueue == 2
\* Timer tasks that can exist at the same time.
MaxTimers == 2
\* Ticks taken by an indefinite timer.
MaxIndefiniteTicks == 2
\* Largest configured focus duration, in minutes.
MaxDuration == 1
\* Execution tasks in flight at the same time.
MaxTasks == 1
\* Largest small duration of a FocusSession, in minutes.
MaxMinutes == 2
\* Most events one timer task is followed for.
MaxTicks == 61
\* The scripts the analyzers find.
MaxFound == 3
\* Longest raw line given to strip_ansi_codes on its own.
MaxLine == 3
\* Most lines one child process writes.
MaxChildLines == 2
\* Concurrent callers of StateStore.update in the store's scenario.
NCallers == 3
\* Largest capacity of the sink channel a caller hands to execute().
MaxCapacity == 2

(***************************************************************************)
(* Program constants.                                                      *)
(***************************************************************************)
\* timer_task: total_seconds = duration_minutes.saturating_mul(60)
SecondsPerMinute == 60
\* OutputPanelState::new: max_lines
OutputMaxLines == 1000
\* AppState::add_notification: duration_ms
NotificationTtlMs == 5000
\* execute_selected_action, handle_confirm_key: mpsc::channel(100), the sink
SinkCapacity == 100

(***************************************************************************)
(* Texts.  The texts of an action are strings; chars gives the characters  *)
(* of each, on which to_lowercase and contains are computed.  A palette    *)
(* filter is the sequence of the characters typed.                         *)
(***************************************************************************)
UpperCase == <<"A", "B", "C", "D", "E", "F", "G", "H", "I", "J", "K", "L", "M",
               "N", "O", "P", "Q", "R", "S", "T", "U", "V", "W", "X", "Y", "Z">>
LowerCase == <<"a", "b", "c", "d", "e", "f", "g", "h", "i", "j", "k", "l", "m",
               "n", "o", "p", "q", "r", "s", "t", "u", "v", "w", "x", "y", "z">>

\* The lower-case letter of every upper-case one.
LowerOf ==
    [c \in {UpperCase[i] : i \in 1..26} |->
        LowerCase[CHOOSE i \in 1..26 : UpperCase[i] = c]]

\* char::to_lowercase on the ASCII letters
LowerChar(c) == IF c \in DOMAIN LowerOf THEN LowerOf[c] ELSE c

\* str::to_lowercase
to_lowercase(s) == [i \in 1..Len(s) |-> LowerChar(s[i])]

\* str::contains(&pattern): the pattern occurs as a contiguous substring
contains(s, pat) ==
    \E i \in 0..(Len(s) - Len(pat)) :
        \A j \in 1..Len(pat) : s[i + j] = pat[j]

Min(a, b) == IF a < b THEN a ELSE b
Max(a, b) == IF a < b THEN b ELSE a
\* usize/u32 saturating_sub
saturating_sub(a, b) == IF a > b THEN a - b ELSE 0
\* u32 saturating_mul.  The product saturates at u32::MAX, which the
\* durations of the model (at most MaxDuration minutes) stay far below.
saturating_mul(a, b) == a * b

(***************************************************************************)
(* Actions (src/actions/mod.rs).  description = <<>> with has_description  *)
(* FALSE stands for None.                                                  *)
(***************************************************************************)
Action(id, name, command, has_description, description) ==
    [id |-> id, name |-> name, command |-> command,
     has_description |-> has_description, description |-> description]

\* The characters of a text.
chars(text) ==
    CASE text = "" -> <<>>
      [] text = "Enter focus mode" ->
           <<"E", "n", "t", "e", "r", " ", "f", "o", "c", "u", "s", " ", "m", "o", "d", "e">>
      [] text = "Exit Orbit" ->
           <<"E", "x", "i", "t", " ", "O", "r", "b", "i", "t">>
      [] text = "Focus Mode" ->
           <<"F", "o", "c", "u", "s", " ", "M", "o", "d", "e">>
      [] text = "Help" ->
           <<"H", "e", "l", "p">>
      [] text = "Quit" ->
           <<"Q", "u", "i", "t">>
      [] text = "Refresh" ->
           <<"R", "e", "f", "r", "e", "s", "h">>
      [] text = "Refresh project analysis" ->
           <<"R", "e", "f", "r", "e", "s", "h", " ", "p", "r", "o", "j", "e", "c", "t", " ", "a", "n", "a", "l", "y", "s", "i", "s">>
      [] text = "Show help" ->
           <<"S", "h", "o", "w", " ", "h", "e", "l", "p">>
      [] text = "Show/hide Docker panel" ->
           <<"S", "h", "o", "w", "/", "h", "i", "d", "e", " ", "D", "o", "c", "k", "e", "r", " ", "p", "a", "n", "e", "l">>
      [] text = "Show/hide ports panel" ->
           <<"S", "h", "o", "w", "/", "h", "i", "d", "e", " ", "p", "o", "r", "t", "s", " ", "p", "a", "n", "e", "l">>
      [] text = "Toggle Docker Panel" ->
           <<"T", "o", "g", "g", "l", "e", " ", "D", "o", "c", "k", "e", "r", " ", "P", "a", "n", "e", "l">>
      [] text = "Toggle Ports Panel" ->
           <<"T", "o", "g", "g", "l", "e", " ", "P", "o", "r", "t", "s", " ", "P", "a", "n", "e", "l">>
      [] text = "dev" ->
           <<"d", "e", "v">>
      [] text = "nop" ->
           <<"n", "o", "p">>
      [] text = "npm run dev" ->
           <<"n", "p", "m", " ", "r", "u", "n", " ", "d", "e", "v">>

\* The texts of the actions: names, commands and descriptions.
Texts ==
    {"",
     "Enter focus mode",
     "Exit Orbit",
     "Focus Mode",
     "Help",
     "Quit",
     "Refresh",
     "Refresh project analysis",
     "Show help",
     "Show/hide Docker panel",
     "Show/hide ports panel",
     "Toggle Docker Panel",
     "Toggle Ports Panel",
     "dev",
     "nop",
     "npm run dev"}

system_actions ==
    << Action("system:refresh", "Refresh", "", TRUE,
              "Refresh project analysis"),
       Action("system:toggle_docker",
              "Toggle Docker Panel", "", TRUE,
              "Show/hide Docker panel"),
       Action("system:toggle_ports",
              "Toggle Ports Panel", "", TRUE,
              "Show/hide ports panel"),
       Action("system:focus_mode",
              "Focus Mode", "", TRUE,
              "Enter focus mode"),
       Action("system:help", "Help", "", TRUE,
              "Show help"),
       Action("system:quit", "Quit", "", TRUE,
              "Exit Orbit") >>

\* The scripts the detection collaborator can discover, sorted by name and
\* deduplicated by name as ProjectDetector::analyze leaves them.  The second
\* one has an empty command.
DiscoveredScripts ==
    << [name |-> "dev",
        command |-> "npm run dev",
        has_description |-> FALSE, description |-> ""],
       [name |-> "nop", command |-> "",
        has_description |-> FALSE, description |-> ""] >>

\* The id "script:<name>" of Action::from_script, as a string.
ScriptId(name) ==
    IF name = "dev" THEN "script:dev"
    ELSE IF name = "nop" THEN "script:nop"
    ELSE IF name = "build" THEN "script:build"
    ELSE "script:?"

from_script(script) ==
    Action(ScriptId(script.name), script.name, script.command,
           script.has_description, script.description)

\* A ProjectContext: the first n discovered scripts (all of them when there
\* are fewer), e required environment variables, p expected ports.
Project(n, e, p) ==
    [scripts |-> SubSeq(DiscoveredScripts, 1, Min(n, Len(DiscoveredScripts))),
     env_required |-> [i \in 1..e |-> i],
     ports |-> [i \in 1..p |-> i]]

\* The script names the analyzers find, in the order of str::cmp.
ScriptNames == <<"build", "dev", "nop">>

\* a.name.cmp(&b.name) is Less
name_lt(a, b) ==
    \E i, j \in 1..Len(ScriptNames) :
        i < j /\ ScriptNames[i] = a.name /\ ScriptNames[j] = b.name

\* One step of the stable sort: the script goes behind every script of the
\* sorted sequence that is not greater.
RECURSIVE sort_insert(_, _)
sort_insert(sorted, script) ==
    IF sorted = <<>> THEN <<script>>
    ELSE IF name_lt(script, Head(sorted)) THEN <<script>> \o sorted
    ELSE <<Head(sorted)>> \o sort_insert(Tail(sorted), script)

\* scripts.sort_by(|a, b| a.name.cmp(&b.name))
RECURSIVE sort_by_name(_)
sort_by_name(scripts) ==
    IF scripts = <<>> THEN <<>>
    ELSE sort_insert(sort_by_name(SubSeq(scripts, 1, Len(scripts) - 1)),
                     scripts[Len(scripts)])

\* A deduplication that removes nothing.
dedup_nothing(scripts) == scripts

\* scripts.dedup_by(|a, b| a.name == b.name): a script is removed when the
\* one kept before it has its name.
RECURSIVE dedup_by_name(_)
dedup_by_name(scripts) ==
    IF Len(scripts) <= 1 THEN scripts
    ELSE LET kept == dedup_by_name(SubSeq(scripts, 1, Len(scripts) - 1))
             a == scripts[Len(scripts)]
         IN IF a.name = kept[Len(kept)].name THEN kept ELSE Append(kept, a)

\* ActionRegistry::new
ActionRegistry_new == system_actions

\* ActionRegistry::from_project
from_project(project) ==
    system_actions \o [i \in 1..Len(project.scripts) |-> from_script(project.scripts[i])]

\* ActionRegistry::get (the first action with that id; "none" when absent)
registry_get(registry, id) ==
    IF \E i \in 1..Len(registry) : registry[i].id = id
    THEN registry[CHOOSE i \in 1..Len(registry) :
                    /\ registry[i].id = id
                    /\ \A j \in 1..(i - 1) : registry[j].id # id]
    ELSE Action("none", "", "", FALSE, "")


(***************************************************************************)
(* AppState and its methods (src/core/state.rs).                           *)
(***************************************************************************)
\* AppMode.  The variants without fields carry zeroed fields, so that any
\* two modes can be compared.
Mode(tag) ==
    [tag |-> tag, remaining_seconds |-> 0, ambient_playing |-> FALSE, action_id |-> "none"]
Dashboard == Mode("Dashboard")
CommandPalette == Mode("CommandPalette")
Help == Mode("Help")
FocusMode(remaining, ambient) ==
    [Mode("FocusMode") EXCEPT !.remaining_seconds = remaining, !.ambient_playing = ambient]
Confirm(action_id) == [Mode("Confirm") EXCEPT !.action_id = action_id]

\* FocusedPanel::next
panel_next(p) ==
    CASE p = "Actions" -> "Docker"
      [] p = "Docker" -> "Ports"
      [] p = "Ports" -> "Env"
      [] p = "Env" -> "Output"
      [] p = "Output" -> "Actions"

\* FocusedPanel::prev
panel_prev(p) ==
    CASE p = "Actions" -> "Output"
      [] p = "Docker" -> "Actions"
      [] p = "Ports" -> "Docker"
      [] p = "Env" -> "Ports"
      [] p = "Output" -> "Env"

\* text.to_lowercase() of every text of an action, computed once.
lowered == [text \in Texts |-> to_lowercase(chars(text))]

\* The closure of update_filter: name, command or description contains the
\* lowercased filter.
filter_matches(a, filter_lower) ==
    \/ contains(lowered[a.name], filter_lower)
    \/ contains(lowered[a.command], filter_lower)
    \/ (a.has_description /\ contains(lowered[a.description], filter_lower))

\* A filter update that stores the filter and keeps the indices it found.
update_filter_keeping(ap, filter) ==
    [ap EXCEPT !.filter = filter, !.selected_index = 0]

\* ActionPanelState::update_filter, on the actions panel ap
update_filter(ap, filter) ==
    LET filter_lower == to_lowercase(filter)
        keep(a) == filter_matches(a, filter_lower)
    IN [ap EXCEPT
          !.filter = filter,
          !.filtered_indices =
              IF filter = <<>> THEN [i \in 1..Len(ap.actions) |-> i - 1]
              ELSE SelectSeq([i \in 1..Len(ap.actions) |-> i - 1],
                             LAMBDA i : keep(ap.actions[i + 1])),
          !.selected_index = 0]

\* ActionPanelState::selected_action: has_action FALSE stands for None
selected_action(ap) ==
    IF ap.selected_index < Len(ap.filtered_indices)
       /\ ap.filtered_indices[ap.selected_index + 1] < Len(ap.actions)
    THEN [has_action |-> TRUE,
          action |-> ap.actions[ap.filtered_indices[ap.selected_index + 1] + 1]]
    ELSE [has_action |-> FALSE, action |-> Action("none", "", "", FALSE, "")]

\* A push that never drops a line.
output_push_unbounded(op, content, stream) ==
    LET lines == Append(op.lines, [content |-> content, stream |-> stream])
    IN [op EXCEPT
          !.lines = lines,
          !.scroll_offset =
              IF op.auto_scroll THEN saturating_sub(Len(lines), 1)
              ELSE op.scroll_offset]

\* A push that follows the last line whatever auto_scroll says.
output_push_following(op, content, stream) ==
    LET pushed == Append(op.lines, [content |-> content, stream |-> stream])
        lines == IF Len(pushed) > op.max_lines THEN Tail(pushed) ELSE pushed
    IN [op EXCEPT !.lines = lines, !.scroll_offset = saturating_sub(Len(lines), 1)]

\* OutputPanelState::push, on the output panel op
output_push(op, content, stream) ==
    LET pushed == Append(op.lines, [content |-> content, stream |-> stream])
        lines == IF Len(pushed) > op.max_lines THEN Tail(pushed) ELSE pushed
    IN [op EXCEPT
          !.lines = lines,
          !.scroll_offset =
              IF op.auto_scroll THEN saturating_sub(Len(lines), 1)
              ELSE op.scroll_offset]

\* s.panels.output.push(content, stream)
push(s, content, stream) ==
    [s EXCEPT !.panels.output = output_push(s.panels.output, content, stream)]

\* AppState::add_notification at time t (milliseconds)
add_notification(s, message, level, t) ==
    [s EXCEPT !.notifications =
        Append(s.notifications,
               [message |-> message, level |-> level, created_at |-> t,
                duration_ms |-> NotificationTtlMs])]

\* AppState::remove_expired_notifications at time t.  The elapsed time is
\* cast to u64: a negative value becomes a huge one, which is not below the
\* time to live.
remove_expired_notifications(s, t) ==
    LET keep(n) == t - n.created_at >= 0 /\ t - n.created_at < n.duration_ms
    IN [s EXCEPT !.notifications = SelectSeq(s.notifications, keep)]

\* AppState::new with PanelStates::default and LayoutConfig::default.  The
\* metrics panel, the theme, the command history and the working directory
\* are left out: no handler reads them.
AppState_new ==
    [mode |-> Dashboard,
     panels |->
       [docker |-> [containers |-> <<>>, selected_index |-> 0, loading |-> FALSE,
                    error |-> FALSE],
        ports |-> [expected_ports |-> <<>>, active_ports |-> <<>>, conflicts |-> <<>>,
                   selected_index |-> 0, loading |-> FALSE],
        actions |-> [actions |-> <<>>, selected_index |-> 0, filter |-> <<>>,
                     filtered_indices |-> <<>>],
        env |-> [variables |-> <<>>, selected_index |-> 0],
        output |-> [lines |-> <<>>, scroll_offset |-> 0, auto_scroll |-> TRUE,
                    max_lines |-> OutputMaxLines]],
     layout |-> [preset |-> "Standard", docker_panel_visible |-> TRUE,
                 ports_panel_visible |-> TRUE, env_panel_visible |-> TRUE],
     notifications |-> <<>>,
     focus_panel |-> "Actions",
     has_project |-> FALSE,
     terminal_size |-> <<80, 24>>]


(***************************************************************************)
(* Keys and key bindings (src/core/events.rs).                             *)
(***************************************************************************)
\* A KeyEvent: its code (with the character of KeyCode::Char) and modifiers.
KeyEvent(code, ch, modifiers) == [code |-> code, ch |-> ch, modifiers |-> modifiers]

\* KeyBinding::new, KeyBinding::ctrl
KeyBinding_new(code, ch) == KeyEvent(code, ch, "NONE")
KeyBinding_ctrl(code, ch) == KeyEvent(code, ch, "CONTROL")

\* KeyBinding::matches
matches(binding, key) ==
    key.code = binding.code /\ key.ch = binding.ch /\ key.modifiers = binding.modifiers

\* KeyBindings: the default bindings
KeyBindings ==
    [quit |-> KeyBinding_new("Char", "q"),
     quit_alt |-> KeyBinding_ctrl("Char", "c"),
     palette |-> KeyBinding_new("Char", " "),
     focus |-> KeyBinding_new("Char", "f"),
     docker |-> KeyBinding_new("Char", "d"),
     ports |-> KeyBinding_new("Char", "p"),
     env |-> KeyBinding_new("Char", "e"),
     help |-> KeyBinding_new("Char", "?"),
     escape |-> KeyBinding_new("Esc", ""),
     enter |-> KeyBinding_new("Enter", ""),
     tab |-> KeyBinding_new("Tab", ""),
     backtab |-> KeyEvent("BackTab", "", "SHIFT"),
     up |-> KeyBinding_new("Up", ""),
     down |-> KeyBinding_new("Down", ""),
     vim_up |-> KeyBinding_new("Char", "k"),
     vim_down |-> KeyBinding_new("Char", "j"),
     refresh |-> KeyBinding_new("Char", "r")]

(***************************************************************************)
(* Events (src/core/events.rs).                                            *)
(***************************************************************************)
Event_Key(key) == [type |-> "Key", key |-> key]
Event_Resize(w, h) == [type |-> "Resize", w |-> w, h |-> h]
Event_Tick == [type |-> "Tick"]
Event_SlowTick == [type |-> "SlowTick"]
Event_FocusTimerTick(remaining) == [type |-> "FocusTimerTick", remaining |-> remaining]
Event_FocusModeEnded == [type |-> "FocusModeEnded"]
Event_ProjectReload == [type |-> "ProjectReload"]
Event_Quit == [type |-> "Quit"]
Event_ForceRefresh == [type |-> "ForceRefresh"]
Event_Mouse == [type |-> "Mouse"]

\* UnboundedSender::send on the event bus: the event is queued while the
\* receiver lives, and dropped (Err, ignored by every caller) once it is gone.
send(bus, event) ==
    IF bus.receiver THEN [bus EXCEPT !.queue = Append(@, event)] ELSE bus

(***************************************************************************)
(* The Orchestrator's handlers (src/core/app.rs), as functions.            *)
(*                                                                         *)
(* A handler takes and returns a context c: the App's fields and what they *)
(* reach (state: the store's AppState, app: the App's own fields, bus: the *)
(* event bus, timers: the focus timer tasks, tasks: the execution tasks,   *)
(* now: the clock), with result: the handler's return value ("Continue",   *)
(* "Quit", or "Err" for an Err that the ? operator propagates) and         *)
(* overflow: the handler needed a timer or task slot beyond the model's    *)
(* bounds.  The collaborators' answers of one handling are given in env.   *)
(***************************************************************************)
\* What an observer of the store sees of a mode transition: the mode, the
\* palette's filter and selection, the layout preset and the output lines
\* that announce an execution.
View(s) ==
    [mode |-> s.mode.tag, filter |-> s.panels.actions.filter,
     selected |-> s.panels.actions.selected_index, preset |-> s.layout.preset,
     announced |-> Len(SelectSeq(s.panels.output.lines,
                                 LAMBDA line : line.content = "Executing"))]

\* self.state.update(|s| ...) by the event loop: the state becomes s, which
\* every task that reads the store can observe from then on; updates lists
\* what the updates of one handling left.
update(c, s) == [c EXCEPT !.state = s, !.updates = Append(@, View(s))]

\* The selection one step up: if index > 0 { index -= 1 }
step_up(index) == IF index > 0 THEN index - 1 ELSE index

\* A step down that ignores the length.
step_down_unchecked(index, len) == index + 1

\* The selection one step down:
\* let max = len.saturating_sub(1); if index < max { index += 1 }
step_down(index, len) ==
    IF index < saturating_sub(len, 1) THEN index + 1 ELSE index

\* A step up in the output panel that leaves autoscroll on.
navigate_up_autoscrolling(s) ==
    [s EXCEPT !.panels.output.scroll_offset = step_up(@)]

\* App::navigate_up, on the AppState
navigate_up(s) ==
    CASE s.focus_panel = "Actions" ->
           [s EXCEPT !.panels.actions.selected_index = step_up(@)]
      [] s.focus_panel = "Docker" ->
           [s EXCEPT !.panels.docker.selected_index = step_up(@)]
      [] s.focus_panel = "Ports" ->
           [s EXCEPT !.panels.ports.selected_index = step_up(@)]
      [] s.focus_panel = "Env" ->
           [s EXCEPT !.panels.env.selected_index = step_up(@)]
      [] s.focus_panel = "Output" ->
           IF s.panels.output.scroll_offset > 0
           THEN [s EXCEPT !.panels.output.scroll_offset = @ - 1,
                          !.panels.output.auto_scroll = FALSE]
           ELSE s

\* App::navigate_down, on the AppState
navigate_down(s) ==
    CASE s.focus_panel = "Actions" ->
           [s EXCEPT !.panels.actions.selected_index =
               step_down(@, Len(s.panels.actions.filtered_indices))]
      [] s.focus_panel = "Docker" ->
           [s EXCEPT !.panels.docker.selected_index =
               step_down(@, Len(s.panels.docker.containers))]
      [] s.focus_panel = "Ports" ->
           [s EXCEPT !.panels.ports.selected_index =
               step_down(@, Len(s.panels.ports.active_ports))]
      [] s.focus_panel = "Env" ->
           [s EXCEPT !.panels.env.selected_index =
               step_down(@, Len(s.panels.env.variables))]
      [] s.focus_panel = "Output" ->
           [s EXCEPT !.panels.output.scroll_offset =
               step_down(@, Len(s.panels.output.lines))]

\* A mode switch that leaves the actions panel as it is.
switch_mode(s, mode) == [s EXCEPT !.mode = mode]

\* The closure of the palette and escape branches:
\* s.mode = mode; s.panels.actions.filter.clear(); update_filter(String::new())
reset_palette(s, mode) ==
    [s EXCEPT !.mode = mode,
              !.panels.actions = update_filter([@ EXCEPT !.filter = <<>>], <<>>)]

\* App::render: the snapshot is drawn; a failed draw is an Err
render(c, env) == IF env.draw_ok THEN c ELSE [c EXCEPT !.result = "Err"]

\* integrations::ports::detect_conflicts: every expected port that is active
detect_conflicts(expected, active) ==
    SelectSeq(expected, LAMBDA p : \E i \in 1..Len(active) : active[i] = p)

\* App::detect_project.  env.detect_ok: analyze() answered Ok with
\* env.scripts scripts, env.env_required variables and env.expected ports.
detect_project(c, env) ==
    LET s1 == push(c.state, "Detecting project...", "System")
        project == Project(env.scripts, env.env_required, env.expected)
        registry == from_project(project)
        s2 == [s1 EXCEPT
                 !.panels.actions = update_filter([@ EXCEPT !.actions = registry], <<>>),
                 !.panels.env.variables = project.env_required,
                 !.panels.ports.expected_ports = project.ports,
                 !.has_project = TRUE]
    IN IF env.detect_ok
       THEN update([update(c, s1) EXCEPT !.app.action_registry = registry],
                   push(s2, "Project detected", "System"))
       ELSE update(update(c, s1), push(s1, "Project detection failed", "System"))

\* A port refresh that reports a failed scan and leaves the panel loading.
refresh_ports_loading(c, env) ==
    update(c, [push(c.state, "Port scan failed", "System") EXCEPT
                 !.panels.ports.loading = TRUE])

\* App::refresh_ports.  env.ports: the number of active ports found by
\* scan_active_ports, or -1 for its Err.
refresh_ports(c, env) ==
    LET s1 == [c.state EXCEPT !.panels.ports.loading = TRUE]
        expected == s1.panels.ports.expected_ports
        active_ports == [i \in 1..env.ports |-> i]
    IN IF env.ports >= 0
       THEN update(update(c, s1), [s1 EXCEPT
                         !.panels.ports.active_ports = active_ports,
                         !.panels.ports.conflicts = detect_conflicts(expected, active_ports),
                         !.panels.ports.loading = FALSE])
       ELSE update(update(c, s1), [push(s1, "Port scan failed", "System") EXCEPT
                         !.panels.ports.loading = FALSE])

\* App::refresh_docker.  env.docker: the number of containers listed, or -1
\* for the Err of list_containers.
refresh_docker(c, env) ==
    LET s1 == [c.state EXCEPT !.panels.docker.loading = TRUE,
                              !.panels.docker.error = FALSE]
    IN IF ~c.app.docker_client THEN c
       ELSE IF env.docker >= 0
       THEN update(update(c, s1), [s1 EXCEPT
                         !.panels.docker.containers = [i \in 1..env.docker |-> i],
                         !.panels.docker.loading = FALSE])
       ELSE update(update(c, s1), [s1 EXCEPT !.panels.docker.loading = FALSE,
                                 !.panels.docker.error = TRUE])

(***************************************************************************)
(* Focus sessions (src/focus/mod.rs) and execution tasks, as the handlers  *)
(* start and stop them.                                                    *)
(***************************************************************************)
Timers == 1..MaxTimers
Tasks == 1..MaxTasks

\* A timer slot that holds no task; ended tells how the last task of the
\* slot ended, if it sent FocusModeEnded.
NoTimer ==
    [pc |-> "free", duration_minutes |-> 0, elapsed |-> 0, due |-> FALSE,
     cancel |-> "open", ended |-> "no"]

\* An execution slot that holds no task.
NoTask == [pc |-> "free", awaited |-> FALSE, lines |-> 0, chan |-> <<>>]

\* The holders of a sender of the event bus.
Holder(kind, n) == <<kind, n>>

\* The timer slots a new timer task can take: no task runs in them and the
\* live controller does not refer to them.
FreeTimers(c) ==
    {t \in Timers : c.timers[t].pc # "running" /\ t # c.app.focus_controller}

FreeTasks(c) == {k \in Tasks : c.tasks[k].pc = "free"}

\* The least element of a non-empty set of numbers.
Least(S) == CHOOSE x \in S : \A y \in S : x <= y

\* Dropping a FocusModeController: its cancel_tx is dropped unsent, which
\* the timer's cancel_rx observes as closed.
drop_controller(timers, t) ==
    IF t # 0 /\ timers[t].pc = "running" /\ timers[t].cancel = "open"
    THEN [timers EXCEPT ![t].cancel = "dropped"]
    ELSE timers

\* An exit that sends no cancel signal.
exit_without_signal(timers, t) == timers

\* FocusModeController::exit: cancel_tx.take() and send(()); the Err of a
\* send to a timer that has stopped is ignored.
exit(timers, t) ==
    IF t # 0 /\ timers[t].pc = "running" /\ timers[t].cancel = "open"
    THEN [timers EXCEPT ![t].cancel = "sent"]
    ELSE timers

\* FocusModeController::enter in slot t: the timer task is spawned with a
\* clone of the sender; the first tick of a tokio interval is due at once.
enter(c, t, duration) ==
    [c EXCEPT !.timers[t] = [pc |-> "running", duration_minutes |-> duration,
                             elapsed |-> 0, due |-> TRUE, cancel |-> "open",
                             ended |-> "no"],
              !.bus.senders = @ \cup {Holder("timer", t)}]

\* App::enter_focus_mode
enter_focus_mode(c) ==
    LET duration == c.app.config.default_duration
        ambient_enabled == ~c.app.config.ambient_sound_is_empty
        t == Least(FreeTimers(c))
        c1 == enter(c, t, duration)
        c2 == [c1 EXCEPT !.timers = drop_controller(@, c.app.focus_controller),
                         !.app.focus_controller = t]
    IN IF FreeTimers(c) = {} THEN [c EXCEPT !.overflow = TRUE]
       ELSE update(c2, [c2.state EXCEPT
                          !.mode = FocusMode(IF duration = 0 THEN 0
                                             ELSE duration * SecondsPerMinute,
                                             ambient_enabled),
                          !.layout.preset = "FocusMode"])

\* App::exit_focus_mode
exit_focus_mode(c) ==
    LET c1 == [c EXCEPT !.timers = exit(@, c.app.focus_controller),
                        !.app.focus_controller = 0]
    IN update(c1, [c1.state EXCEPT !.mode = Dashboard, !.layout.preset = "Standard"])

\* App::handle_system_action
handle_system_action(c, action_id, env) ==
    CASE action_id = "system:quit" -> [c EXCEPT !.result = "Quit"]
      [] action_id = "system:refresh" -> detect_project(c, env)
      [] action_id = "system:toggle_docker" ->
           update(c, [c.state EXCEPT !.layout.docker_panel_visible = ~@])
      [] action_id = "system:toggle_ports" ->
           update(c, [c.state EXCEPT !.layout.ports_panel_visible = ~@])
      [] action_id = "system:toggle_env" ->
           update(c, [c.state EXCEPT !.layout.env_panel_visible = ~@])
      [] action_id = "system:focus_mode" -> enter_focus_mode(c)
      [] action_id = "system:help" -> update(c, [c.state EXCEPT !.mode = Help])
      [] OTHER -> update(c, push(c.state, "Unknown system action", "System"))

\* action.id.starts_with("system:"), over the ids of the model
is_system(action) ==
    action.id \in {"system:refresh", "system:toggle_docker", "system:toggle_ports",
                   "system:toggle_env", "system:focus_mode", "system:help",
                   "system:quit"}

\* An execution that asks for confirmation: the mode becomes Confirm.
execute_selected_action_confirming(c, env) ==
    update(c, [c.state EXCEPT
                 !.mode = Confirm(selected_action(c.state.panels.actions).action.id)])

\* App::execute_selected_action.  A command is run by a task spawned with
\* tokio::spawn, which owns the executor, the sink and clones of the store
\* and of the sender; the handler returns without awaiting it.
execute_selected_action(c, env) ==
    LET selected == selected_action(c.state.panels.actions)
        action == selected.action
        k == Least(FreeTasks(c))
    IN IF ~selected.has_action THEN c
       ELSE IF is_system(action) THEN handle_system_action(c, action.id, env)
       ELSE IF action.command = ""
       THEN [update(c, push(c.state, "Action has no command to execute", "System"))
               EXCEPT !.bus = send(@, Event_ForceRefresh)]
       ELSE IF FreeTasks(c) = {} THEN [c EXCEPT !.overflow = TRUE]
       ELSE [update(c, push(c.state, "Executing", "System")) EXCEPT
                      !.bus = [send(@, Event_ForceRefresh) EXCEPT
                                 !.senders = @ \cup {Holder("task", k)}],
                      !.tasks[k] = [pc |-> "executing", awaited |-> FALSE,
                                    lines |-> env.child_lines, chan |-> <<>>]]

(***************************************************************************)
(* Key handlers and handle_event (src/core/app.rs).                        *)
(***************************************************************************)
\* App::handle_dashboard_key
handle_dashboard_key(c, key, env) ==
    IF matches(KeyBindings.quit, key) \/ matches(KeyBindings.quit_alt, key)
    THEN [c EXCEPT !.result = "Quit"]
    ELSE IF matches(KeyBindings.palette, key)
    THEN update(c, reset_palette(c.state, CommandPalette))
    ELSE IF matches(KeyBindings.help, key)
    THEN update(c, [c.state EXCEPT !.mode = Help])
    ELSE IF matches(KeyBindings.focus, key)
    THEN enter_focus_mode(c)
    ELSE IF matches(KeyBindings.docker, key)
    THEN update(c, [c.state EXCEPT !.layout.docker_panel_visible = ~@])
    ELSE IF matches(KeyBindings.ports, key)
    THEN update(c, [c.state EXCEPT !.layout.ports_panel_visible = ~@])
    ELSE IF matches(KeyBindings.env, key)
    THEN update(c, [c.state EXCEPT !.layout.env_panel_visible = ~@])
    ELSE IF matches(KeyBindings.tab, key)
    THEN update(c, [c.state EXCEPT !.focus_panel = panel_next(@)])
    ELSE IF matches(KeyBindings.backtab, key)
    THEN update(c, [c.state EXCEPT !.focus_panel = panel_prev(@)])
    ELSE IF matches(KeyBindings.up, key) \/ matches(KeyBindings.vim_up, key)
    THEN update(c, navigate_up(c.state))
    ELSE IF matches(KeyBindings.down, key) \/ matches(KeyBindings.vim_down, key)
    THEN update(c, navigate_down(c.state))
    ELSE IF matches(KeyBindings.enter, key)
    THEN execute_selected_action(c, env)
    ELSE IF matches(KeyBindings.refresh, key)
    THEN detect_project(c, env)
    ELSE c

\* App::handle_palette_key
handle_palette_key(c, key, env) ==
    LET executed == execute_selected_action(c, env)
        ap == c.state.panels.actions
    IN IF matches(KeyBindings.escape, key)
       THEN update(c, reset_palette(c.state, Dashboard))
       ELSE IF matches(KeyBindings.enter, key)
       THEN IF executed.result = "Quit" \/ executed.overflow THEN executed
            ELSE update(executed, reset_palette(executed.state, Dashboard))
       ELSE IF matches(KeyBindings.up, key) \/ matches(KeyBindings.vim_up, key)
       THEN update(c, [c.state EXCEPT !.panels.actions.selected_index = step_up(@)])
       ELSE IF matches(KeyBindings.down, key) \/ matches(KeyBindings.vim_down, key)
       THEN update(c, [c.state EXCEPT !.panels.actions.selected_index =
                           step_down(@, Len(ap.filtered_indices))])
       ELSE IF key.code = "Char"
       THEN update(c, [c.state EXCEPT !.panels.actions =
                           update_filter(@, Append(ap.filter, key.ch))])
       ELSE IF key.code = "Backspace"
       THEN update(c, [c.state EXCEPT !.panels.actions =
                           update_filter(@, SubSeq(ap.filter, 1, Len(ap.filter) - 1))])
       ELSE c

\* App::handle_help_key
handle_help_key(c, key) ==
    IF \/ matches(KeyBindings.escape, key)
       \/ matches(KeyBindings.help, key)
       \/ matches(KeyBindings.quit, key)
    THEN update(c, [c.state EXCEPT !.mode = Dashboard])
    ELSE c

\* App::handle_focus_key
handle_focus_key(c, key) ==
    IF matches(KeyBindings.escape, key) \/ matches(KeyBindings.quit, key)
    THEN exit_focus_mode(c)
    ELSE c

\* App::handle_confirm_key.  On yes the pending action is looked up in the
\* registry and executor.execute(&action, tx).await runs inside the
\* handler, with a sink (tx, _rx) whose receiver is never polled: the task
\* is awaited.  The handler's last update (mode = Dashboard) follows the
\* await.
handle_confirm_key(c, key, env) ==
    LET action == registry_get(c.app.action_registry, c.state.mode.action_id)
        k == Least(FreeTasks(c))
        yes == (key.code = "Char" /\ key.ch \in {"y", "Y"}) \/ key.code = "Enter"
        no == (key.code = "Char" /\ key.ch \in {"n", "N"}) \/ key.code = "Esc"
    IN IF yes
       THEN IF action.id = "none" THEN update(c, [c.state EXCEPT !.mode = Dashboard])
            ELSE IF FreeTasks(c) = {} THEN [c EXCEPT !.overflow = TRUE]
            ELSE [c EXCEPT !.result = "Await",
                           !.tasks[k] = [pc |-> "executing", awaited |-> TRUE,
                                         lines |-> env.child_lines, chan |-> <<>>]]
       ELSE IF no THEN update(c, [c.state EXCEPT !.mode = Dashboard])
       ELSE c

\* App::handle_key
handle_key(c, key, env) ==
    CASE c.state.mode.tag = "Dashboard" -> handle_dashboard_key(c, key, env)
      [] c.state.mode.tag = "CommandPalette" -> handle_palette_key(c, key, env)
      [] c.state.mode.tag = "Help" -> handle_help_key(c, key)
      [] c.state.mode.tag = "FocusMode" -> handle_focus_key(c, key)
      [] c.state.mode.tag = "Confirm" -> handle_confirm_key(c, key, env)
      [] OTHER -> c

\* The two refreshes of a SlowTick; refresh_metrics touches only the
\* metrics panel, which the model leaves out.
refresh_all(c, env) == refresh_docker(refresh_ports(c, env), env)

\* A handling that forgets the event's type and takes it for the palette key.
handle_event_as_key(c, event, env) ==
    handle_key(c, KeyBindings.palette, env)

\* App::handle_event
handle_event(c, event, env) ==
    CASE event.type = "Key" -> handle_key(c, event.key, env)
      [] event.type = "Resize" ->
           render(update(c, [c.state EXCEPT !.terminal_size = <<event.w, event.h>>]), env)
      [] event.type = "Tick" ->
           render(update(c, remove_expired_notifications(c.state, c.now)), env)
      [] event.type = "SlowTick" -> refresh_all(c, env)
      [] event.type = "FocusTimerTick" ->
           IF c.state.mode.tag = "FocusMode"
           THEN update(c, [c.state EXCEPT !.mode.remaining_seconds = event.remaining])
           ELSE c
      [] event.type = "FocusModeEnded" -> exit_focus_mode(c)
      [] event.type = "ProjectReload" -> detect_project(c, env)
      [] event.type = "Quit" -> [c EXCEPT !.result = "Quit"]
      [] event.type = "ForceRefresh" -> render(c, env)
      [] OTHER -> c

\* App::shutdown: the live controller, if any, is taken and exited
shutdown(c) ==
    [c EXCEPT !.timers = exit(@, c.app.focus_controller),
              !.app.focus_controller = 0]

\* App::new: the placeholder channel's receiver is dropped at once.
App_new(docker_client, default_duration, ambient_sound_is_empty) ==
    [focus_controller |-> 0,
     action_registry |-> ActionRegistry_new,
     docker_client |-> docker_client,
     config |-> [default_duration |-> default_duration,
                 ambient_sound_is_empty |-> ambient_sound_is_empty]]

NoBus == [queue |-> <<>>, senders |-> {}, receiver |-> FALSE]


(***************************************************************************)
(* The state.                                                              *)
(***************************************************************************)
(***************************************************************************)
(* The Action Execution Pipeline (src/actions/mod.rs): execute_with_pty.   *)
(* A line of the child is the sequence of its characters; ESC is '\x1b',   *)
(* CR is '\r', and BAD stands for bytes that are not valid UTF-8.          *)
(***************************************************************************)
ESC == "ESC"
CR == "CR"
BAD == "BAD"

\* char::is_ascii_alphabetic, over the characters of the model
is_ascii_alphabetic(c) == c \in {"a", "m"}

\* strip_ansi_codes' inner loop from position j: the position after the
\* first ASCII letter at or after j, or past the end when there is none.
RECURSIVE skip_sequence(_, _)
skip_sequence(s, j) ==
    IF j > Len(s) THEN j
    ELSE IF is_ascii_alphabetic(s[j]) THEN j + 1
    ELSE skip_sequence(s, j + 1)

\* strip_ansi_codes' outer loop from position i.
RECURSIVE strip_from(_, _)
strip_from(s, i) ==
    IF i > Len(s) THEN <<>>
    ELSE IF s[i] = ESC
    THEN IF i + 1 <= Len(s) /\ s[i + 1] = "["
         THEN strip_from(s, skip_sequence(s, i + 2))
         ELSE strip_from(s, i + 1)
    ELSE IF s[i] = CR THEN strip_from(s, i + 1)
    ELSE <<s[i]>> \o strip_from(s, i + 1)

\* A cleaning that removes nothing.
keep_all(s) == s

strip_ansi_codes(s) == strip_from(s, 1)

\* BufRead::lines yields Ok for a line of valid UTF-8 and Err otherwise.
valid_utf8(content) == \A i \in 1..Len(content) : content[i] # BAD

\* OutputLine
Stdout(text) == [type |-> "Stdout", text |-> text]
Stderr(text) == [type |-> "Stderr", text |-> text]
Exit(code) == [type |-> "Exit", code |-> code]

\* The message the reader thread pushes for a line it read: the cleaned
\* content, or the content as read when the cleaned content is empty.
reader_message(content) ==
    LET clean_content == strip_ansi_codes(content)
    IN Stdout(IF clean_content = <<>> THEN content ELSE clean_content)

\* read_thread.join() returns once the reader thread has finished; a
\* main thread that did not join goes on wherever the reader is.
not_joined(reader) == TRUE

joined(reader) == reader = "done"

\* Option<i32>
None == [some |-> FALSE, value |-> 0]
Some(value) == [some |-> TRUE, value |-> value]

\* result.0.map(|c| c == 0).unwrap_or(false), and a success that does not
\* look at the code.
success_always(exit_code) == TRUE

success_of(exit_code) == IF exit_code.some THEN exit_code.value = 0 ELSE FALSE

\* The ActionResult execute() builds from what execute_with_pty returned
\* (action_id and duration_ms are left out).
ActionResult(exit_code) ==
    [exit_code |-> exit_code, success |-> success_of(exit_code)]

\* What execute() returned: nothing yet, Ok(ActionResult) or Err.
NoResult == [returned |-> "no", value |-> ActionResult(None)]
Ok(value) == [returned |-> "Ok", value |-> value]
Err == [returned |-> "Err", value |-> ActionResult(None)]

\* No execution: the pipeline's state in the runs that start none.
NoExec ==
    [capacity |-> 0, child |-> [pc |-> "none", code |-> 0], wrote |-> <<>>,
     pty |-> <<>>, reader |-> "none", main |-> "none", chan |-> <<>>,
     received |-> <<>>, result |-> NoResult]

\* execute() called with a sink of the given capacity: execute_with_pty
\* starts on a blocking thread.
called(capacity) == [NoExec EXCEPT !.capacity = capacity, !.main = "new"]

\* execute_with_pty returns through a ? before the reader thread exists,
\* and the same with a message pushed on the way out.
abort_with_exit(e) ==
    [e EXCEPT !.main = "setup_failed", !.result = Err, !.chan = Append(@, Exit(1))]

abort(e) == [e EXCEPT !.main = "setup_failed", !.result = Err]

\* execute_with_pty after spawn_command, drop(pair.slave) and the spawn of
\* the reader thread, with a sink of the given capacity: the child runs,
\* the reader reads, the main thread is in child.wait().
spawned(capacity) ==
    [capacity |-> capacity, child |-> [pc |-> "running", code |-> 0], wrote |-> <<>>,
     pty |-> <<>>, reader |-> "reading", main |-> "wait", chan |-> <<>>,
     received |-> <<>>, result |-> NoResult]

(***************************************************************************)
(* FocusSession (src/focus/mod.rs).  A u32 is kept as its two 16-bit       *)
(* halves, so that the arithmetic is that of 32 bits exactly.              *)
(***************************************************************************)
Half == 256 * 256

\* The u32 of a number below 2^31, and u32::MAX.
u32(n) == [hi |-> n \div Half, lo |-> n % Half]
u32_MAX == [hi |-> Half - 1, lo |-> Half - 1]

u32_lt(a, b) == a.hi < b.hi \/ (a.hi = b.hi /\ a.lo < b.lo)

\* a - b for a >= b
u32_sub(a, b) ==
    IF a.lo >= b.lo THEN [hi |-> a.hi - b.hi, lo |-> a.lo - b.lo]
    ELSE [hi |-> a.hi - b.hi - 1, lo |-> a.lo + Half - b.lo]

\* u32::saturating_sub
u32_saturating_sub(a, b) == IF u32_lt(a, b) THEN u32(0) ELSE u32_sub(a, b)

\* a / n and a % n for a small n
u32_div(a, n) == [hi |-> a.hi \div n, lo |-> ((a.hi % n) * Half + a.lo) \div n]
u32_rem(a, n) == ((a.hi % n) * Half + a.lo) % n

\* a times 60 in full: the high half can exceed 16 bits.
times_60(a) == [hi |-> a.hi * 60 + (a.lo * 60) \div Half, lo |-> (a.lo * 60) % Half]

\* A multiplication that never overflows, and a * 60 in u32: on overflow a
\* build with overflow checks panics and one without wraps around.
mul_60_unbounded(a, overflow_checks) == [panicked |-> FALSE, value |-> times_60(a)]

mul_60(a, overflow_checks) ==
    LET product == times_60(a)
    IN [panicked |-> overflow_checks /\ product.hi >= Half,
        value |-> [hi |-> product.hi % Half, lo |-> product.lo]]

\* What a call returned, or that it panicked.
Returned(value) == [panicked |-> FALSE, value |-> value]
Panicked == [panicked |-> TRUE, value |-> u32(0)]

FocusSession(duration_minutes, elapsed_seconds) ==
    [duration_minutes |-> duration_minutes, elapsed_seconds |-> elapsed_seconds]

\* FocusSession::remaining_seconds
remaining_seconds(session, overflow_checks) ==
    LET total_seconds == mul_60(session.duration_minutes, overflow_checks)
    IN IF total_seconds.panicked THEN Panicked
       ELSE Returned(u32_saturating_sub(total_seconds.value, session.elapsed_seconds))

\* FocusSession::is_complete
is_complete(session, overflow_checks) ==
    LET total_seconds == mul_60(session.duration_minutes, overflow_checks)
    IN IF session.duration_minutes = u32(0) THEN Returned(FALSE)
       ELSE IF total_seconds.panicked THEN Panicked
       ELSE Returned(~u32_lt(session.elapsed_seconds, total_seconds.value))

\* The decimal digits of a number in halves.
Digit(k) == <<"0", "1", "2", "3", "4", "5", "6", "7", "8", "9">>[k + 1]

RECURSIVE to_string(_)
to_string(a) ==
    IF a.hi = 0 /\ a.lo < 10 THEN <<Digit(a.lo)>>
    ELSE to_string(u32_div(a, 10)) \o <<Digit(u32_rem(a, 10))>>

\* format!("{:02}:{:02}", minutes, seconds) of the seconds given
format_02_02(remaining) ==
    LET minutes == to_string(u32_div(remaining, 60))
        seconds == to_string(u32(u32_rem(remaining, 60)))
        pad(digits) == IF Len(digits) < 2 THEN <<"0">> \o digits ELSE digits
    IN pad(minutes) \o <<":">> \o pad(seconds)

\* FocusSession::format_remaining
format_remaining(session, overflow_checks) ==
    LET remaining == remaining_seconds(session, overflow_checks)
    IN IF session.duration_minutes = u32(0) THEN Returned(<<"-", "-", ":", "-", "-">>)
       ELSE IF remaining.panicked THEN Panicked
       ELSE Returned(format_02_02(remaining.value))

\* elapsed += 1 in u32: at u32::MAX a build with overflow checks panics and
\* one without wraps to 0.
add_1(a, overflow_checks) ==
    IF a = u32_MAX THEN [panicked |-> overflow_checks, value |-> u32(0)]
    ELSE Returned(IF a.lo = Half - 1 THEN [hi |-> a.hi + 1, lo |-> 0]
                  ELSE [a EXCEPT !.lo = @ + 1])

\* An increment that has no width.
add_1_unbounded(a, overflow_checks) == Returned([a EXCEPT !.lo = @ + 1])

\* duration_minutes.saturating_mul(60)
saturating_mul_60(a) == IF times_60(a).hi >= Half THEN u32_MAX ELSE times_60(a)

\* FocusModeController::timer_task, one turn of its loop that takes the
\* tick branch.  task holds the locals (duration_minutes, elapsed), the
\* events sent so far and pc: "running", "ended" after the break that
\* follows FocusModeEnded, "cancelled" after the break of the cancel branch,
\* "panicked".
timer_task(task) ==
    LET total_seconds == saturating_mul_60(task.duration_minutes)
        indefinite == total_seconds = u32(0)
        elapsed == add_1(task.elapsed, task.overflow_checks)
        remaining == IF indefinite THEN u32(0)
                     ELSE u32_saturating_sub(total_seconds, elapsed.value)
        ticked == Append(task.events, Event_FocusTimerTick(remaining))
    IN IF elapsed.panicked THEN [task EXCEPT !.pc = "panicked"]
       ELSE IF ~indefinite /\ ~u32_lt(elapsed.value, total_seconds)
       THEN [task EXCEPT !.elapsed = elapsed.value,
                         !.events = Append(ticked, Event_FocusModeEnded),
                         !.pc = "ended"]
       ELSE [task EXCEPT !.elapsed = elapsed.value, !.events = ticked]

\* FocusModeConfig, with ambient_sound TRUE for Some(sound).
FocusModeConfig(duration_minutes, enable_dnd, minimize_windows, ambient_sound) ==
    [duration_minutes |-> duration_minutes, enable_dnd |-> enable_dnd,
     minimize_windows |-> minimize_windows, ambient_sound |-> ambient_sound]

\* A call of a collaborator and whether it answered Ok; every caller in the
\* controller discards the answer (let _ =).
Called(name, ok) == [name |-> name, ok |-> ok]

\* FocusModeController::enter: the collaborators it calls, in order.
enter_calls(config, ok) ==
    (IF config.enable_dnd THEN <<Called("enable_dnd", ok)>> ELSE <<>>)
      \o (IF config.minimize_windows THEN <<Called("minimize_windows", ok)>> ELSE <<>>)
      \o (IF config.ambient_sound THEN <<Called("spawn open", TRUE)>> ELSE <<>>)
      \o <<Called("spawn timer_task", TRUE)>>

\* An exit that disables do-not-disturb whatever the configuration.
exit_calls_dnd_always(config, timer, ok) ==
    <<Called("cancel_tx.send", timer = "running"), Called("disable_dnd", ok),
      Called("stop_ambient_sound", ok)>>

\* FocusModeController::exit: the calls it makes, in order.  The send on
\* cancel_tx is Err when the timer task has stopped and dropped cancel_rx.
exit_calls(config, timer, ok) ==
    <<Called("cancel_tx.send", timer = "running")>>
      \o (IF config.enable_dnd THEN <<Called("disable_dnd", ok)>> ELSE <<>>)
      \o <<Called("stop_ambient_sound", ok)>>

\* No function is being called.
NoCall == [fn |-> "none"]

VARIABLES
    \* StateStore (src/core/state.rs)
    state,            \* the AppState behind StateStore.state
    lock,             \* the RwLock: its writer (0: none) and its readers
    callers,          \* the tasks calling update() or snapshot(), each at its place
    order,            \* the mutators, in the order their calls took the write lock
    notices,          \* the change notices published on change_tx, in order
    \* App (src/core/app.rs)
    app,              \* the App's fields: focus_controller, action_registry, ...
    run,              \* where run() is: its pc, and its result once it returned
    handled,          \* the event the loop handled last, and the mode and the
                      \* actions selection it was handled in
    \* the event bus (src/core/events.rs)
    bus,              \* its queue, the holders of its senders, its receiver
    \* tasks
    timers,           \* the focus timer tasks (src/focus/mod.rs)
    tasks,            \* the execution tasks spawned by execute_selected_action
    now,              \* the clock, in milliseconds
    \* the Action Execution Pipeline (src/actions/mod.rs)
    exec,             \* one execute_with_pty call: child, terminal, threads, sink
    \* pure functions
    call              \* one call of a function: its arguments and what it returned

storeVars == <<lock, callers, order, notices>>
appVars == <<app, run, handled, bus, timers, tasks, now>>
vars ==
    <<state, lock, callers, order, notices, app, run, handled, bus, timers, tasks, now,
      exec, call>>

(***************************************************************************)
(* StateStore: update, read, snapshot under the RwLock.                    *)
(*                                                                         *)
(* The mutators are closures of src/core/app.rs that run on different      *)
(* tasks: the output collector's push of a Stdout line, the completion     *)
(* task's push and notification, and two of the event loop (scrolling the  *)
(* output panel up, opening the palette).  Each is split in the two halves *)
(* its statements fall into, so that a half-applied mutation is a state of *)
(* the model.                                                              *)
(***************************************************************************)
Callers == 1..NCallers
Mutators == {"stdout", "completed", "scroll_up", "palette"}

\* The first statements of each mutator.
MutatorFirst(m, s) ==
    CASE m = "stdout" ->
           [s EXCEPT !.panels.output.lines =
               Append(@, [content |-> "line", stream |-> "Stdout"])]
      [] m = "completed" -> push(s, "Completed", "System")
      [] m = "scroll_up" ->
           IF s.panels.output.scroll_offset > 0
           THEN [s EXCEPT !.panels.output.scroll_offset = @ - 1]
           ELSE s
      [] m = "palette" -> [s EXCEPT !.mode = CommandPalette]

\* The remaining statements of each mutator, applied to what the first left.
MutatorRest(m, s, before) ==
    CASE m = "stdout" ->
           LET op == s.panels.output
               lines == IF Len(op.lines) > op.max_lines THEN Tail(op.lines)
                        ELSE op.lines
           IN [s EXCEPT !.panels.output.lines = lines,
                        !.panels.output.scroll_offset =
                            IF op.auto_scroll THEN saturating_sub(Len(lines), 1)
                            ELSE @]
      [] m = "completed" -> add_notification(s, "Completed", "Success", 0)
      [] m = "scroll_up" ->
           IF before.panels.output.scroll_offset > 0
           THEN [s EXCEPT !.panels.output.auto_scroll = FALSE]
           ELSE s
      [] m = "palette" ->
           [s EXCEPT !.panels.actions =
               update_filter([@ EXCEPT !.filter = <<>>], <<>>)]

\* The mutators as the closures are written (src/core/app.rs:695-698,
\* 731-735, 596-601, 310-320).
Mutator(m, s) ==
    CASE m = "stdout" -> push(s, "line", "Stdout")
      [] m = "completed" ->
           add_notification(push(s, "Completed", "System"), "Completed", "Success", 0)
      [] m = "scroll_up" ->
           IF s.panels.output.scroll_offset > 0
           THEN [s EXCEPT !.panels.output.scroll_offset = @ - 1,
                          !.panels.output.auto_scroll = FALSE]
           ELSE s
      [] m = "palette" ->
           [s EXCEPT !.mode = CommandPalette,
                     !.panels.actions = update_filter([@ EXCEPT !.filter = <<>>], <<>>)]

\* The change notice the mutator returns ("none": None).
MutatorNotice(m) == IF m = "palette" THEN "ModeChanged" ELSE "none"

\* The state the store's scenario starts from: a dashboard with the system
\* actions and the two lines of a project detection.
StoreInitState ==
    LET s0 == [AppState_new EXCEPT
                 !.panels.actions =
                     update_filter([@ EXCEPT !.actions = system_actions], <<>>)]
    IN push(push(s0, "Detecting project...", "System"), "Project detected", "System")

\* The sequential left fold of the mutators of ms over s.
RECURSIVE Fold(_, _)
Fold(ms, s) == IF ms = <<>> THEN s ELSE Fold(Tail(ms), Mutator(Head(ms), s))

\* A write() that is granted whoever holds the lock.
WriteLockFree_NoExclusion == TRUE

\* parking_lot's RwLock: write() is granted when nobody holds the lock,
\* read() when no writer holds it.
WriteLockFree == lock.writer = 0 /\ lock.readers = {}
ReadLockFree == lock.writer = 0

Idle(c) == callers[c].pc = "idle"

\* update(): let mut state = self.state.write()
UpdateAcquire(c, m) ==
    /\ Idle(c)
    /\ WriteLockFree
    /\ lock' = [lock EXCEPT !.writer = c]
    /\ callers' = [callers EXCEPT ![c] = [pc |-> "locked", op |-> m, before |-> state]]
    /\ order' = Append(order, m)
    /\ UNCHANGED <<state, notices>>
    /\ UNCHANGED <<appVars, exec, call>>

\* update(): mutator(&mut state), its first statements
UpdateMutateFirst(c) ==
    /\ callers[c].pc = "locked"
    /\ state' = MutatorFirst(callers[c].op, state)
    /\ callers' = [callers EXCEPT ![c].pc = "mutating"]
    /\ UNCHANGED <<lock, order, notices>>
    /\ UNCHANGED <<appVars, exec, call>>

\* update(): mutator(&mut state), its remaining statements
UpdateMutateRest(c) ==
    /\ callers[c].pc = "mutating"
    /\ state' = MutatorRest(callers[c].op, state, callers[c].before)
    /\ callers' = [callers EXCEPT ![c].pc = "mutated"]
    /\ UNCHANGED <<lock, order, notices>>
    /\ UNCHANGED <<appVars, exec, call>>

\* update(): if let Some(change) = change { let _ = self.change_tx.send(change); }
\* The write guard is still alive here: it is dropped when update returns.
UpdateSend(c) ==
    /\ callers[c].pc = "mutated"
    /\ notices' = IF MutatorNotice(callers[c].op) = "none" THEN notices
                  ELSE Append(notices, MutatorNotice(callers[c].op))
    /\ callers' = [callers EXCEPT ![c].pc = "sent"]
    /\ UNCHANGED <<state, lock, order>>
    /\ UNCHANGED <<appVars, exec, call>>

\* update() returns: the write guard is dropped
UpdateRelease(c) ==
    /\ callers[c].pc = "sent"
    /\ lock' = [lock EXCEPT !.writer = 0]
    /\ callers' = [callers EXCEPT ![c] = [pc |-> "done", op |-> @.op, before |-> state]]
    /\ UNCHANGED <<state, order, notices>>
    /\ UNCHANGED <<appVars, exec, call>>

\* snapshot(): self.state.read()
SnapshotAcquire(c) ==
    /\ Idle(c)
    /\ ReadLockFree
    /\ lock' = [lock EXCEPT !.readers = @ \cup {c}]
    /\ callers' = [callers EXCEPT ![c] = [pc |-> "reading", op |-> "snapshot",
                                          before |-> state]]
    /\ UNCHANGED <<state, order, notices>>
    /\ UNCHANGED <<appVars, exec, call>>

\* snapshot(): .clone(), and the read guard is dropped
SnapshotRelease(c) ==
    /\ callers[c].pc = "reading"
    /\ lock' = [lock EXCEPT !.readers = @ \ {c}]
    /\ callers' = [callers EXCEPT ![c] = [pc |-> "done", op |-> "snapshot",
                                          before |-> state]]
    /\ UNCHANGED <<state, order, notices>>
    /\ UNCHANGED <<appVars, exec, call>>

\* The event loop's task among the callers of the store; the others are
\* output collectors and completion tasks.
Orchestrator == NCallers

\* The store operations of the orchestrator's functions, in program order:
\* "read" takes a read guard and "drop" is the end of its lifetime (the end
\* of the let statement or of the block that holds it); any other name is
\* an update with that closure.  A key handler is preceded by handle_key's
\* `let mode = self.state.read().mode.clone();`.
HandleKeyGuards == <<"read", "drop">>

\* The same functions with every read guard kept until the function returns.
guards_kept(handler) ==
    CASE handler = "handle_dashboard_key" -> <<"read", "palette", "drop">>
      [] handler = "refresh_ports" -> <<"loading", "read", "scanned", "drop">>
      [] OTHER -> <<"read", "read", "drop", "scroll_up", "drop">>

guards(handler) ==
    CASE handler = "handle_dashboard_key" -> HandleKeyGuards \o <<"palette">>
      [] handler = "navigate_up" -> HandleKeyGuards \o <<"read", "drop", "scroll_up">>
      [] handler = "navigate_down" -> HandleKeyGuards \o <<"read", "drop", "scroll_down">>
      [] handler = "handle_confirm_key" -> HandleKeyGuards \o <<"read", "drop", "dashboard">>
      [] handler = "execute_selected_action" ->
           HandleKeyGuards \o <<"read", "drop", "executing">>
      [] handler = "refresh_ports" -> <<"loading", "read", "drop", "scanned">>

\* The closures of those updates.
GuardedMutator(m, s) ==
    CASE m \in Mutators -> Mutator(m, s)
      [] m = "scroll_down" -> navigate_down(s)
      [] m = "dashboard" -> [s EXCEPT !.mode = Dashboard]
      [] m = "executing" -> push(s, "Executing", "System")
      [] m = "loading" -> [s EXCEPT !.panels.ports.loading = TRUE]
      [] m = "scanned" -> [s EXCEPT !.panels.ports.loading = FALSE]

\* The orchestrator's next operation is a read: self.state.read().
GuardRead ==
    /\ call.fn = "handler"
    /\ ~call.writing
    /\ call.todo # <<>>
    /\ Head(call.todo) = "read"
    /\ ReadLockFree
    /\ lock' = [lock EXCEPT !.readers = @ \cup {Orchestrator}]
    /\ call' = [call EXCEPT !.todo = Tail(@), !.guards = @ + 1]
    /\ UNCHANGED <<state, callers, order, notices, appVars, exec>>

\* A read guard of the orchestrator is dropped.
GuardDrop ==
    /\ call.fn = "handler"
    /\ ~call.writing
    /\ call.todo # <<>>
    /\ Head(call.todo) = "drop"
    /\ lock' = [lock EXCEPT !.readers = IF call.guards = 1 THEN @ \ {Orchestrator} ELSE @]
    /\ call' = [call EXCEPT !.todo = Tail(@), !.guards = @ - 1]
    /\ UNCHANGED <<state, callers, order, notices, appVars, exec>>

\* The orchestrator's next operation is an update: write() is granted and
\* the closure runs.
GuardUpdate ==
    /\ call.fn = "handler"
    /\ ~call.writing
    /\ call.todo # <<>>
    /\ Head(call.todo) \notin {"read", "drop"}
    /\ WriteLockFree
    /\ lock' = [lock EXCEPT !.writer = Orchestrator]
    /\ state' = GuardedMutator(Head(call.todo), state)
    /\ call' = [call EXCEPT !.writing = TRUE]
    /\ UNCHANGED <<callers, order, notices, appVars, exec>>

\* The orchestrator's update returns and its write guard is dropped.
GuardUpdateReturn ==
    /\ call.fn = "handler"
    /\ call.writing
    /\ lock' = [lock EXCEPT !.writer = 0]
    /\ call' = [call EXCEPT !.todo = Tail(@), !.writing = FALSE]
    /\ UNCHANGED <<state, callers, order, notices, appVars, exec>>

\* run() has not been called; nothing was handled.
NotRunning == [pc |-> "new", result |-> "none", exit |-> "none", shutdown |-> FALSE]
NothingHandled ==
    [event |-> [type |-> "none"], mode |-> "none", selected |-> 0, action |-> "none",
     notifications |-> <<>>, view |-> View(AppState_new), updates |-> <<>>]

StoreInit ==
    /\ state = StoreInitState
    /\ lock = [writer |-> 0, readers |-> {}]
    /\ callers = [c \in Callers |-> [pc |-> "idle", op |-> "none", before |-> StoreInitState]]
    /\ order = <<>>
    /\ notices = <<>>
    /\ app = App_new(FALSE, 0, FALSE)
    /\ run = NotRunning
    /\ handled = NothingHandled
    /\ bus = NoBus
    /\ timers = [t \in Timers |-> NoTimer]
    /\ tasks = [k \in Tasks |-> NoTask]
    /\ now = 0
    /\ exec = NoExec
    /\ call = NoCall

StoreNext ==
    \/ \E c \in Callers, m \in Mutators : UpdateAcquire(c, m)
    \/ \E c \in Callers : UpdateMutateFirst(c)
    \/ \E c \in Callers : UpdateMutateRest(c)
    \/ \E c \in Callers : UpdateSend(c)
    \/ \E c \in Callers : UpdateRelease(c)
    \/ \E c \in Callers : SnapshotAcquire(c)
    \/ \E c \in Callers : SnapshotRelease(c)

\* The store under concurrent callers of update and snapshot.
SpecStore == StoreInit /\ [][StoreNext]_vars

\* Guards: the orchestrator runs one of its functions that read the store
\* while the other callers, output collectors and completion tasks, update
\* it.
Handlers ==
    {"handle_dashboard_key", "navigate_up", "navigate_down", "handle_confirm_key",
     "execute_selected_action", "refresh_ports"}

Collectors == Callers \ {Orchestrator}

GuardInit ==
    /\ state = StoreInitState
    /\ lock = [writer |-> 0, readers |-> {}]
    /\ callers = [c \in Callers |-> [pc |-> "idle", op |-> "none", before |-> StoreInitState]]
    /\ order = <<>>
    /\ notices = <<>>
    /\ app = App_new(FALSE, 0, FALSE)
    /\ run = NotRunning
    /\ handled = NothingHandled
    /\ bus = NoBus
    /\ timers = [t \in Timers |-> NoTimer]
    /\ tasks = [k \in Tasks |-> NoTask]
    /\ now = 0
    /\ exec = NoExec
    /\ \E handler \in Handlers :
          call = [fn |-> "handler", name |-> handler, todo |-> guards(handler),
                  guards |-> 0, writing |-> FALSE]

GuardNext ==
    \/ GuardRead
    \/ GuardDrop
    \/ GuardUpdate
    \/ GuardUpdateReturn
    \/ \E c \in Collectors, m \in {"stdout", "completed"} : UpdateAcquire(c, m)
    \/ \E c \in Collectors : UpdateMutateFirst(c)
    \/ \E c \in Collectors : UpdateMutateRest(c)
    \/ \E c \in Collectors : UpdateSend(c)
    \/ \E c \in Collectors : UpdateRelease(c)

SpecGuard == GuardInit /\ [][GuardNext]_vars

(***************************************************************************)
(* The Orchestrator: run() and the event loop (src/core/app.rs), the event *)
(* sources (src/core/events.rs), the focus timer tasks (src/focus/mod.rs)  *)
(* and the execution tasks (src/core/app.rs).                              *)
(*                                                                         *)
(* The event bus is an unbounded channel.  The events of the free-running  *)
(* sources (the input translator and the two tickers) are handled in the   *)
(* step that takes them: these sources send at any time, so every order in *)
(* which the loop can handle their events among the queued ones is the     *)
(* order of some queue.  bus.queue holds the events whose sending depends  *)
(* on the program's state: the timers' and the ForceRefresh requests.      *)
(***************************************************************************)
\* The context of the handlers, from the variables.
Ctx ==
    [state |-> state, app |-> app, bus |-> bus, timers |-> timers, tasks |-> tasks,
     now |-> now, result |-> "Continue", overflow |-> FALSE, updates |-> <<>>]

\* EventHandler::new and spawn_sources, with self.event_tx = event_tx.clone():
\* senders are held by the handler itself (its tx field), by the App, by
\* run()'s local event_tx and by the three source tasks.
EventHandler_new ==
    [queue |-> <<>>,
     senders |-> {Holder("handler", 0), Holder("app", 0), Holder("run", 0),
                  Holder("input", 0), Holder("tick", 0), Holder("slow_tick", 0)},
     receiver |-> TRUE]

\* The senders held by producers of events.
ProducerHolders ==
    {Holder("input", 0), Holder("tick", 0), Holder("slow_tick", 0)}
      \cup {Holder("timer", t) : t \in Timers} \cup {Holder("task", k) : k \in Tasks}

\* run() returns: the handler (receiver and tx) and the local sender drop.
run_returns(b) ==
    [b EXCEPT !.receiver = FALSE,
              !.senders = @ \ {Holder("handler", 0), Holder("run", 0)}]

\* The variables take the context r a handler returned after event; the
\* loop goes on, awaits an execution, or ends: event_loop returns, shutdown
\* runs and run() returns the loop's result.
Commit(r, event) ==
    \E ending \in {r.result \in {"Quit", "Err"}} :
    \E f \in {IF ending THEN shutdown(r) ELSE r} :
       /\ ~r.overflow
       /\ Len(r.state.panels.output.lines) <= MaxOutput
       /\ Len(r.bus.queue) <= MaxQueue
       /\ Len(r.state.panels.actions.filter) <= MaxFilter
       /\ state' = f.state
       /\ app' = f.app
       /\ timers' = f.timers
       /\ tasks' = f.tasks
       /\ bus' = IF ending THEN run_returns(f.bus) ELSE f.bus
       /\ run' = CASE r.result = "Continue" -> run
                   [] r.result = "Await" -> [run EXCEPT !.pc = "awaiting"]
                   [] r.result = "Quit" ->
                        [pc |-> "returned", result |-> "Ok", exit |-> "quit",
                         shutdown |-> TRUE]
                   [] r.result = "Err" ->
                        [pc |-> "returned", result |-> "Err", exit |-> "error",
                         shutdown |-> TRUE]
       /\ handled' = [event |-> IF event.type = "Key" THEN event
                                 ELSE [type |-> event.type],
                      mode |-> state.mode.tag,
                      selected |-> state.panels.actions.selected_index,
                      action |-> selected_action(state.panels.actions).action.id,
                      notifications |-> state.notifications,
                      view |-> View(state),
                      updates |-> r.updates]
       /\ UNCHANGED <<now, storeVars, exec, call>>

\* run() up to the event loop: detection, the priming refreshes, the bus
\* and its sources, and the initial render, whose Err ends run() at once.
Run(env) ==
    /\ run.pc = "new"
    /\ \E c \in {refresh_docker(refresh_ports(detect_project(Ctx, env), env), env)} :
       /\ Len(c.state.panels.output.lines) <= MaxOutput
       /\ state' = c.state
       /\ app' = c.app
       /\ bus' = IF env.draw_ok THEN EventHandler_new ELSE run_returns(EventHandler_new)
       /\ run' = IF env.draw_ok THEN [run EXCEPT !.pc = "loop"]
                 ELSE [pc |-> "returned", result |-> "Err", exit |-> "startup",
                       shutdown |-> FALSE]
       /\ UNCHANGED <<timers, tasks, now, handled, storeVars, exec, call>>

\* The source of an event of the free-running producers.
Source(event) ==
    CASE event.type = "Tick" -> Holder("tick", 0)
      [] event.type = "SlowTick" -> Holder("slow_tick", 0)
      [] OTHER -> Holder("input", 0)

\* event_loop: an event of the input translator or of a ticker is received
\* and handled.  The channel is first-in first-out, so the event is sent
\* when every queued event has been received.
Deliver(event, env) ==
    /\ run.pc = "loop"
    /\ bus.queue = <<>>
    /\ Source(event) \in bus.senders
    /\ \E r \in {handle_event(Ctx, event, env)} : Commit(r, event)

\* event_loop: the next queued event is received and handled; with the
\* queue empty and every sender gone, next() is None and the loop breaks.
Dequeue(env) ==
    /\ run.pc = "loop"
    /\ IF bus.queue # <<>>
       THEN \E r \in {handle_event([Ctx EXCEPT !.bus.queue = Tail(@)], Head(bus.queue),
                                     env)} :
                Commit(r, Head(bus.queue))
       ELSE /\ bus.senders = {}
            /\ run' = [pc |-> "returned", result |-> "Ok", exit |-> "end_of_stream",
                       shutdown |-> TRUE]
            /\ timers' = shutdown(Ctx).timers
            /\ app' = shutdown(Ctx).app
            /\ bus' = run_returns(bus)
            /\ UNCHANGED <<state, tasks, now, handled, storeVars, exec, call>>

\* chrono::Utc::now() reads the wall clock, which moves on and can be set
\* back: the clock shows t.
Clock(t) ==
    /\ run.pc = "loop"
    /\ t # now
    /\ now' = t
    /\ UNCHANGED <<state, app, run, bus, timers, tasks, handled, storeVars, exec, call>>

\* terminal_events: the terminal's event stream ends and the task returns.
InputEnd ==
    /\ Holder("input", 0) \in bus.senders
    /\ bus' = [bus EXCEPT !.senders = @ \ {Holder("input", 0)}]
    /\ UNCHANGED <<state, app, run, timers, tasks, now, handled, storeVars, exec, call>>

\* The 1-second interval of timer t comes due.  A task whose cancel signal
\* is ready has been woken and is polled before another second passes, so
\* only a tick that is already due competes with the signal.
Second(t) ==
    /\ timers[t].pc = "running"
    /\ \A u \in Timers : timers[u].pc = "running" => timers[u].cancel = "open"
    /\ ~timers[t].due
    /\ timers' = [timers EXCEPT ![t].due = TRUE]
    /\ UNCHANGED <<state, app, run, bus, tasks, now, handled, storeVars, exec, call>>

\* timer_task: select! takes the due tick, whether or not the cancel signal
\* is ready as well (the branches are polled in random order).  ended
\* records the FocusModeEnded it sends: "natural", or "after_exit" when
\* exit() had already sent the cancel signal.
TimerTick(t) ==
    LET tm == timers[t]
        total_seconds == saturating_mul(tm.duration_minutes, SecondsPerMinute)
        indefinite == total_seconds = 0
        elapsed == tm.elapsed + 1
        remaining == IF indefinite THEN 0 ELSE saturating_sub(total_seconds, elapsed)
        ends == ~indefinite /\ elapsed >= total_seconds
        ticked == send(bus, Event_FocusTimerTick(remaining))
    IN /\ tm.pc = "running"
       /\ tm.due
       /\ indefinite => tm.elapsed < MaxIndefiniteTicks
       /\ bus' = IF ends
                 THEN [send(ticked, Event_FocusModeEnded) EXCEPT
                         !.senders = @ \ {Holder("timer", t)}]
                 ELSE ticked
       /\ Len(bus'.queue) <= MaxQueue
       /\ timers' = [timers EXCEPT
                       ![t] = IF ends
                              THEN [NoTimer EXCEPT
                                      !.ended = IF tm.cancel = "sent" THEN "after_exit"
                                                ELSE "natural"]
                              ELSE [tm EXCEPT !.elapsed = elapsed, !.due = FALSE]]
       /\ UNCHANGED <<state, app, run, tasks, now, handled, storeVars, exec, call>>

\* timer_task: select! takes the cancel branch (the signal was sent, or the
\* sender was dropped) and the task ends silently.
TimerCancel(t) ==
    /\ timers[t].pc = "running"
    /\ timers[t].cancel # "open"
    /\ timers' = [timers EXCEPT ![t] = NoTimer]
    /\ bus' = [bus EXCEPT !.senders = @ \ {Holder("timer", t)}]
    /\ UNCHANGED <<state, app, run, tasks, now, handled, storeVars, exec, call>>

\* The child of task k writes a line: execute() pushes Stdout to the sink.
TaskWrite(k) ==
    /\ tasks[k].pc = "executing"
    /\ tasks[k].lines > 0
    /\ Len(tasks[k].chan) < SinkCapacity
    /\ tasks' = [tasks EXCEPT ![k].lines = @ - 1, ![k].chan = Append(@, "Stdout")]
    /\ UNCHANGED <<state, app, run, bus, timers, now, handled, storeVars, exec, call>>

\* The child of task k exits: execute() pushes Exit and returns Ok.
TaskExit(k, success) ==
    /\ tasks[k].pc = "executing"
    /\ tasks[k].lines = 0
    /\ Len(tasks[k].chan) < SinkCapacity
    /\ tasks' = [tasks EXCEPT ![k].pc = IF success THEN "succeeded" ELSE "failed",
                              ![k].chan = Append(@, "Exit")]
    /\ UNCHANGED <<state, app, run, bus, timers, now, handled, storeVars, exec, call>>

\* execute() of task k returns Err (the terminal or the child could not be
\* set up): the spawned task reports it; the sink is dropped.
TaskError(k) ==
    /\ tasks[k].pc = "executing"
    /\ tasks[k].chan = <<>>
    /\ ~tasks[k].awaited
    /\ state' = add_notification(push(state, "Failed to execute", "System"),
                                 "Action failed", "Error", now)
    /\ Len(state'.panels.output.lines) <= MaxOutput
    /\ bus' = [send(bus, Event_ForceRefresh) EXCEPT !.senders = @ \ {Holder("task", k)}]
    /\ Len(bus'.queue) <= MaxQueue
    /\ tasks' = [tasks EXCEPT ![k] = NoTask]
    /\ UNCHANGED <<app, run, timers, now, handled, storeVars, exec, call>>

\* The output collector of task k receives the next message of the sink.
TaskCollect(k) ==
    /\ tasks[k].pc # "free"
    /\ ~tasks[k].awaited
    /\ tasks[k].chan # <<>>
    /\ tasks' = [tasks EXCEPT ![k].chan = Tail(@)]
    /\ IF Head(tasks[k].chan) = "Stdout"
       THEN /\ state' = push(state, "line", "Stdout")
            /\ Len(state'.panels.output.lines) <= MaxOutput
            /\ bus' = send(bus, Event_ForceRefresh)
            /\ Len(bus'.queue) <= MaxQueue
       ELSE UNCHANGED <<state, bus>>
    /\ UNCHANGED <<app, run, timers, now, handled, storeVars, exec, call>>

\* Task k, whose execute() returned Ok and whose collector has finished,
\* reports the completion.
TaskComplete(k) ==
    LET success == tasks[k].pc = "succeeded"
    IN /\ tasks[k].pc \in {"succeeded", "failed"}
       /\ ~tasks[k].awaited
       /\ tasks[k].chan = <<>>
       /\ state' = add_notification(
                       push(state, IF success THEN "Completed" ELSE "Failed with code",
                            "System"),
                       IF success THEN "Completed" ELSE "Failed with code",
                       IF success THEN "Success" ELSE "Error", now)
       /\ Len(state'.panels.output.lines) <= MaxOutput
       /\ bus' = [send(bus, Event_ForceRefresh) EXCEPT !.senders = @ \ {Holder("task", k)}]
       /\ Len(bus'.queue) <= MaxQueue
       /\ tasks' = [tasks EXCEPT ![k] = NoTask]
       /\ UNCHANGED <<app, run, timers, now, handled, storeVars, exec, call>>

\* handle_confirm_key resumes after executor.execute(..).await: the result
\* is ignored (let _ =), the sink is dropped unread, the mode returns to
\* Dashboard and the handler returns Continue.
ConfirmResume(k) ==
    /\ run.pc = "awaiting"
    /\ tasks[k].awaited
    /\ \/ tasks[k].pc \in {"succeeded", "failed"}
       \/ tasks[k].pc = "executing" /\ tasks[k].chan = <<>>
    /\ tasks' = [tasks EXCEPT ![k] = NoTask]
    /\ state' = [state EXCEPT !.mode = Dashboard]
    /\ run' = [run EXCEPT !.pc = "loop"]
    /\ UNCHANGED <<app, bus, timers, now, handled, storeVars, exec, call>>

(***************************************************************************)
(* The steps of one execute_with_pty call: the child, the reader thread,   *)
(* the main (blocking) thread and the receiver of the sink.                *)
(***************************************************************************)
\* strip_ansi_codes is applied to the line given, and again to its result.
Strip ==
    /\ call.fn = "line"
    /\ call' = [fn |-> "strip_ansi_codes", s |-> call.s,
                once |-> strip_ansi_codes(call.s),
                twice |-> strip_ansi_codes(strip_ansi_codes(call.s))]
    /\ UNCHANGED <<state, storeVars, appVars, exec>>

\* A method of the FocusSession given is called.
SessionCall(fn) ==
    /\ call.fn = "session"
    /\ call' = [call EXCEPT
                  !.fn = fn,
                  !.out = CASE fn = "remaining_seconds" ->
                                 remaining_seconds(call.session, call.overflow_checks)
                            [] fn = "is_complete" ->
                                 is_complete(call.session, call.overflow_checks)
                            [] fn = "format_remaining" ->
                                 format_remaining(call.session, call.overflow_checks)]
    /\ UNCHANGED <<state, storeVars, appVars, exec>>

RemainingSeconds == SessionCall("remaining_seconds")
IsComplete == SessionCall("is_complete")
FormatRemaining == SessionCall("format_remaining")

\* enter_focus_mode: remaining_seconds: if duration == 0 { 0 } else
\* { duration * 60 }
ModeTotal ==
    /\ call.fn = "totals"
    /\ "mode" \notin call.computed
    /\ call' = [call EXCEPT
                  !.computed = @ \cup {"mode"},
                  !.mode = IF call.duration_minutes = u32(0) THEN Returned(u32(0))
                           ELSE mul_60(call.duration_minutes, call.overflow_checks)]
    /\ UNCHANGED <<state, storeVars, appVars, exec>>

\* FocusSession::new(duration_minutes).remaining_seconds()
SessionTotal ==
    /\ call.fn = "totals"
    /\ "session" \notin call.computed
    /\ call' = [call EXCEPT
                  !.computed = @ \cup {"session"},
                  !.session = remaining_seconds(FocusSession(call.duration_minutes, u32(0)),
                                                call.overflow_checks)]
    /\ UNCHANGED <<state, storeVars, appVars, exec>>

\* timer_task: let total_seconds = duration_minutes.saturating_mul(60);
TaskTotal ==
    /\ call.fn = "totals"
    /\ "task" \notin call.computed
    /\ call' = [call EXCEPT
                  !.computed = @ \cup {"task"},
                  !.task = Returned(saturating_mul_60(call.duration_minutes))]
    /\ UNCHANGED <<state, storeVars, appVars, exec>>

\* timer_task: ticker.tick() completes and the tick branch runs.
TaskTick ==
    /\ call.fn = "timer_task"
    /\ call.pc = "running"
    /\ Len(call.events) < MaxTicks
    /\ call' = timer_task(call)
    /\ UNCHANGED <<state, storeVars, appVars, exec>>

\* timer_task: the cancel signal arrives and the cancel branch breaks.
TaskCancel ==
    /\ call.fn = "timer_task"
    /\ call.pc = "running"
    /\ call' = [call EXCEPT !.pc = "cancelled"]
    /\ UNCHANGED <<state, storeVars, appVars, exec>>

\* FocusModeController::enter returns the controller.
ControllerEnter(ok) ==
    /\ call.fn = "controller"
    /\ call.pc = "new"
    /\ call' = [call EXCEPT !.pc = "entered", !.timer = "running",
                            !.calls = enter_calls(call.config, ok)]
    /\ UNCHANGED <<state, storeVars, appVars, exec>>

\* The timer task of a finite session ends by itself.
ControllerTimerEnds ==
    /\ call.fn = "controller"
    /\ call.timer = "running"
    /\ call.config.duration_minutes > 0
    /\ call' = [call EXCEPT !.timer = "stopped"]
    /\ UNCHANGED <<state, storeVars, appVars, exec>>

\* FocusModeController::exit runs and returns Ok(()); its cancel signal
\* stops a timer task that still runs.
ControllerExit(ok) ==
    /\ call.fn = "controller"
    /\ call.pc = "entered"
    /\ call' = [call EXCEPT !.pc = "exited", !.timer = "stopped",
                            !.timer_at_exit = call.timer,
                            !.calls = @ \o exit_calls(call.config, call.timer, ok),
                            !.result = "Ok"]
    /\ UNCHANGED <<state, storeVars, appVars, exec>>

\* ProjectDetector::analyze sorts the scripts its analyzers have found.
AnalyzeSort ==
    /\ call.fn = "analyze"
    /\ call.pc = "collected"
    /\ call' = [call EXCEPT !.pc = "sorted", !.scripts = sort_by_name(@)]
    /\ UNCHANGED <<state, storeVars, appVars, exec>>

\* analyze deduplicates them and returns the ProjectContext.
AnalyzeDedup ==
    /\ call.fn = "analyze"
    /\ call.pc = "sorted"
    /\ call' = [call EXCEPT !.pc = "analyzed", !.scripts = dedup_by_name(@)]
    /\ UNCHANGED <<state, storeVars, appVars, exec>>

\* detect_project builds the registry of the project.
RegistryBuild ==
    /\ call.fn = "analyze"
    /\ call.pc = "analyzed"
    /\ call' = [call EXCEPT !.pc = "built",
                            !.registry = from_project([scripts |-> call.scripts])]
    /\ UNCHANGED <<state, storeVars, appVars, exec>>

\* ActionRegistry::get(id) on the registry built.
RegistryGet(id) ==
    /\ call.fn = "analyze"
    /\ call.pc \in {"built", "asked"}
    /\ call' = [call EXCEPT !.pc = "asked", !.id = id,
                            !.got = registry_get(call.registry, id)]
    /\ UNCHANGED <<state, storeVars, appVars, exec>>

\* A line is pushed to the output panel, by any of the updates that do.
PanelPush ==
    /\ call.fn = "output"
    /\ Cardinality({i \in 1..Len(state.panels.output.lines) :
                       state.panels.output.lines[i].content = "Executing"}) < MaxOutput
    /\ state' = push(state, "Executing", "System")
    /\ UNCHANGED <<storeVars, appVars, exec, call>>

\* The up key is handled with the output panel focused.
PanelUp ==
    /\ call.fn = "output"
    /\ state' = navigate_up(state)
    /\ UNCHANGED <<storeVars, appVars, exec, call>>

\* The down key is handled with the output panel focused.
PanelDown ==
    /\ call.fn = "output"
    /\ state' = navigate_down(state)
    /\ UNCHANGED <<storeVars, appVars, exec, call>>

\* The n-th push on the output panel since its construction; the content of
\* the line is n, its stream any of the three.
PushNumbered(stream) ==
    /\ call.fn = "pushes"
    /\ call.pushed < call.first + MaxOutput
    /\ state' = push(state, call.pushed + 1, stream)
    /\ call' = [call EXCEPT !.pushed = @ + 1, !.last = stream]
    /\ UNCHANGED <<storeVars, appVars, exec>>

\* The line of an execution in the output panel: the i-th line its reader
\* thread pushed, or (i = 0) its completion line.
LineOf(k, i, text) == [task |-> k, seq |-> i, text |-> text]

\* A completion that does not wait for the output collector.
output_handle_ignored(e) == e.pc \in {"succeeded", "failed"}

\* let _ = output_handle.await: the collector's loop has ended, recv()
\* having answered None on the empty sink whose senders are dropped.
output_handle_finished(e) == e.pc \in {"succeeded", "failed"} /\ e.chan = <<>>

\* The reader thread of execution k pushes its next line to the sink.
OrderReaderPush(k) ==
    /\ call.fn = "executions"
    /\ call.ex[k].pc = "executing"
    /\ call.ex[k].pushed < call.ex[k].total
    /\ Len(call.ex[k].chan) < MaxCapacity
    /\ call' = [call EXCEPT
                  !.ex[k].pushed = @ + 1,
                  !.ex[k].chan = Append(@, LineOf(k, call.ex[k].pushed + 1, "line"))]
    /\ UNCHANGED <<state, storeVars, appVars, exec>>

\* The child of execution k has exited and the reader thread has pushed
\* every line: Exit is pushed, execute() returns Ok and the senders drop.
OrderExit(k, success) ==
    /\ call.fn = "executions"
    /\ call.ex[k].pc = "executing"
    /\ call.ex[k].pushed = call.ex[k].total
    /\ Len(call.ex[k].chan) < MaxCapacity
    /\ call' = [call EXCEPT
                  !.ex[k].pc = IF success THEN "succeeded" ELSE "failed",
                  !.ex[k].chan = Append(@, LineOf(k, 0, "Exit"))]
    /\ UNCHANGED <<state, storeVars, appVars, exec>>

\* The output collector of execution k receives the next message and
\* pushes a Stdout line to the output panel in one update.
OrderCollect(k) ==
    /\ call.fn = "executions"
    /\ call.ex[k].chan # <<>>
    /\ call' = [call EXCEPT !.ex[k].chan = Tail(@)]
    /\ state' = IF Head(call.ex[k].chan).text = "line"
                THEN push(state, Head(call.ex[k].chan), "Stdout")
                ELSE state
    /\ UNCHANGED <<storeVars, appVars, exec>>

\* The task of execution k, after execute() returned Ok and the collector
\* finished, pushes the completion line and notifies in one update.
OrderComplete(k) ==
    LET msg == IF call.ex[k].pc = "succeeded" THEN "Completed" ELSE "Failed with code"
    IN /\ call.fn = "executions"
       /\ output_handle_finished(call.ex[k])
       /\ call' = [call EXCEPT !.ex[k].pc = "completed"]
       /\ state' = add_notification(push(state, LineOf(k, 0, msg), "System"), msg,
                                    IF call.ex[k].pc = "succeeded" THEN "Success"
                                    ELSE "Error", now)
       /\ UNCHANGED <<storeVars, appVars, exec>>

ExecUnchanged == UNCHANGED <<state, storeVars, appVars, call>>

\* The child writes a line to the terminal (its standard output and its
\* standard error are the same terminal).
ChildWrite(line) ==
    /\ exec.child.pc = "running"
    /\ Len(exec.wrote) < MaxChildLines
    /\ exec' = [exec EXCEPT !.wrote = Append(@, line), !.pty = Append(@, line)]
    /\ ExecUnchanged

\* The child exits with a code, which closes its side of the terminal.
ChildExit(code) ==
    /\ exec.child.pc = "running"
    /\ exec' = [exec EXCEPT !.child = [pc |-> "exited", code |-> code]]
    /\ ExecUnchanged

\* The reader thread reads a line (Ok(content)) and pushes it with
\* blocking_send, which waits for room in the sink.
ReaderLine ==
    /\ exec.reader = "reading"
    /\ exec.pty # <<>>
    /\ valid_utf8(Head(exec.pty))
    /\ Len(exec.chan) < exec.capacity
    /\ exec' = [exec EXCEPT !.pty = Tail(@),
                            !.chan = Append(@, reader_message(Head(exec.pty)))]
    /\ ExecUnchanged

\* The reader thread's read fails (Err(_) => break): the line is not valid
\* UTF-8.  The thread ends and what the child wrote stays unread.
ReaderFail ==
    /\ exec.reader = "reading"
    /\ exec.pty # <<>>
    /\ ~valid_utf8(Head(exec.pty))
    /\ exec' = [exec EXCEPT !.reader = "done"]
    /\ ExecUnchanged

\* The reader thread has read everything and the child's side is closed:
\* lines() ends and so does the thread.
ReaderEof ==
    /\ exec.reader = "reading"
    /\ exec.pty = <<>>
    /\ exec.child.pc = "exited"
    /\ exec' = [exec EXCEPT !.reader = "done"]
    /\ ExecUnchanged

\* execute_with_pty up to the spawn of the reader thread: openpty,
\* spawn_command and try_clone_reader each succeed or return through ?.
\* When the reader cannot be cloned the child has been spawned and is left
\* running with nobody reading.
Setup(outcome) ==
    /\ exec.main = "new"
    /\ exec' = CASE outcome = "ok" -> spawned(exec.capacity)
                 [] outcome \in {"openpty", "spawn_command"} -> abort(exec)
                 [] outcome = "try_clone_reader" ->
                      abort([exec EXCEPT !.child = [pc |-> "running", code |-> 0]])
    /\ ExecUnchanged

\* child.wait() returns Err: execute_with_pty returns through ? with the
\* reader thread still running.
MainWaitFails ==
    /\ exec.main = "wait"
    /\ exec' = [exec EXCEPT !.main = "wait_failed", !.result = Err]
    /\ ExecUnchanged

\* child.wait() returns and the main thread drops pair.master.
MainWait ==
    /\ exec.main = "wait"
    /\ exec.child.pc = "exited"
    /\ exec' = [exec EXCEPT !.main = "join"]
    /\ ExecUnchanged

\* read_thread.join() returns.
MainJoin ==
    /\ exec.main = "join"
    /\ joined(exec.reader)
    /\ exec' = [exec EXCEPT !.main = "send_exit"]
    /\ ExecUnchanged

\* output_tx.blocking_send(OutputLine::Exit(exit_code)), then
\* Ok((Some(exit_code),)), from which execute() builds its ActionResult.
MainSendExit ==
    /\ exec.main = "send_exit"
    /\ Len(exec.chan) < exec.capacity
    /\ exec' = [exec EXCEPT !.chan = Append(@, Exit(exec.child.code)),
                            !.main = "returned",
                            !.result = Ok(ActionResult(Some(exec.child.code)))]
    /\ ExecUnchanged

\* The receiver of the sink takes the next message.
Receive ==
    /\ exec.chan # <<>>
    /\ exec' = [exec EXCEPT !.chan = Tail(@), !.received = Append(@, Head(exec.chan))]
    /\ ExecUnchanged

\* The receiver of the sink is dropped: the channel closes and what it held
\* is discarded.
ReceiverDrop ==
    /\ call.fn = "sink"
    /\ call.receiver # "dropped"
    /\ call' = [call EXCEPT !.receiver = "dropped"]
    /\ exec' = [exec EXCEPT !.chan = <<>>]
    /\ UNCHANGED <<state, storeVars, appVars>>

\* The reader thread reads a line and blocking_send answers Err, the
\* receiver being dropped: the thread breaks out of its loop.
ReaderSendFails ==
    /\ call.fn = "sink"
    /\ call.receiver = "dropped"
    /\ exec.reader = "reading"
    /\ exec.pty # <<>>
    /\ valid_utf8(Head(exec.pty))
    /\ exec' = [exec EXCEPT !.pty = Tail(@), !.reader = "done"]
    /\ ExecUnchanged

\* let _ = output_tx.blocking_send(Exit(..)) answers Err, the receiver
\* being dropped; execute_with_pty returns Ok all the same.
MainSendExitFails ==
    /\ call.fn = "sink"
    /\ call.receiver = "dropped"
    /\ exec.main = "send_exit"
    /\ exec' = [exec EXCEPT !.main = "returned",
                            !.result = Ok(ActionResult(Some(exec.child.code)))]
    /\ ExecUnchanged

\* The steps of the reader thread and of the main thread with a sink whose
\* receiver is draining, held without being polled, or dropped.
ReaderStep ==
    \/ call.receiver # "dropped" /\ ReaderLine
    \/ ReaderSendFails
    \/ ReaderFail
    \/ ReaderEof

MainStep ==
    \/ MainWait
    \/ MainJoin
    \/ call.receiver # "dropped" /\ MainSendExit
    \/ MainSendExitFails

\* The receiver, when it drains the sink, takes the next message.
SinkReceive == call.receiver = "draining" /\ Receive


(***************************************************************************)
(* Specifications of the Orchestrator.                                     *)
(***************************************************************************)
\* The collaborators' answers during one handling.
Env(draw_ok, ports, docker, detect_ok, scripts, env_required, expected, child_lines) ==
    [draw_ok |-> draw_ok, ports |-> ports, docker |-> docker, detect_ok |-> detect_ok,
     scripts |-> scripts, env_required |-> env_required, expected |-> expected,
     child_lines |-> child_lines]

\* Every draw succeeds, and no collaborator is asked.
Quiet == Env(TRUE, 0, 0, TRUE, 0, 0, 0, 0)

\* The program after App::new, before run().
OrchInit(docker_client, default_duration, ambient_sound_is_empty) ==
    /\ state = AppState_new
    /\ lock = [writer |-> 0, readers |-> {}]
    /\ callers = [c \in Callers |-> [pc |-> "idle", op |-> "none", before |-> AppState_new]]
    /\ order = <<>>
    /\ notices = <<>>
    /\ app = App_new(docker_client, default_duration, ambient_sound_is_empty)
    /\ run = NotRunning
    /\ handled = NothingHandled
    /\ bus = NoBus
    /\ timers = [t \in Timers |-> NoTimer]
    /\ tasks = [k \in Tasks |-> NoTask]
    /\ now = 0
    /\ exec = NoExec
    /\ call = NoCall

\* Navigation: the panels are filled once, at startup, with lists of every
\* length up to MaxLen (the containers and the environment variables n, the
\* active ports MaxLen - n); then keys navigate, switch panels, open and
\* close the palette and edit its filter.
NavStart ==
    {Env(TRUE, MaxLen - n, n, TRUE, MaxScripts, n, 0, 0) : n \in 0..MaxLen}

NavKeys ==
    {KeyBindings.up, KeyBindings.down, KeyBindings.vim_up, KeyBindings.vim_down,
     KeyBindings.tab, KeyBindings.backtab, KeyBindings.palette, KeyBindings.escape,
     KeyEvent("Char", "h", "NONE"), KeyEvent("Char", "z", "NONE"),
     KeyEvent("Backspace", "", "NONE")}

NavInit == OrchInit(TRUE, 0, FALSE)

NavNext ==
    \/ \E env \in NavStart : Run(env)
    \/ \E key \in NavKeys : Deliver(Event_Key(key), Quiet)

SpecNav == NavInit /\ [][NavNext]_vars

\* Refreshes: the panels are filled at startup with lists of length
\* MaxLen; then keys navigate and reload the project (which is detected
\* with MaxLen or no environment variables, or is not detected), SlowTick
\* refreshes the ports and the containers with lists of length MaxLen or 0
\* (or the containers cannot be listed), and Tick renders, with a draw that
\* succeeds or fails.
RefreshStart == {Env(TRUE, MaxLen, MaxLen, TRUE, MaxScripts, MaxLen, 0, 0)}

RefreshKeys == {KeyBindings.down, KeyBindings.tab, KeyBindings.refresh}

RefreshAnswers(event) ==
    CASE event.type = "SlowTick" ->
           {Env(TRUE, p, d, TRUE, 0, 0, 0, 0) : p \in {0, MaxLen}, d \in {-1, 0, MaxLen}}
      [] event.type = "Tick" -> {Env(ok, 0, 0, TRUE, 0, 0, 0, 0) : ok \in BOOLEAN}
      [] OTHER ->
           {Env(TRUE, 0, 0, ok, MaxScripts, e, 0, 0) : ok \in BOOLEAN, e \in {0, MaxLen}}

RefreshEvents == {Event_Key(key) : key \in RefreshKeys} \cup {Event_Tick, Event_SlowTick}

RefreshInit == OrchInit(TRUE, 0, FALSE)

RefreshNext ==
    \/ \E env \in RefreshStart : Run(env)
    \/ \E event \in RefreshEvents : \E env \in RefreshAnswers(event) : Deliver(event, env)

SpecRefresh == RefreshInit /\ [][RefreshNext]_vars

\* Filtering: the palette is opened and closed, its filter is typed in
\* both cases and erased, and the project is reloaded, by the refresh key
\* and by ProjectReload (also with the palette open), with every number of
\* scripts up to MaxScripts or with a failed detection.
FilterStart == {Env(TRUE, 0, 0, TRUE, MaxScripts, 0, 0, 0)}

FilterKeys ==
    {KeyBindings.palette, KeyBindings.escape, KeyBindings.refresh,
     KeyEvent("Char", "h", "NONE"), KeyEvent("Char", "T", "SHIFT"),
     KeyEvent("Char", "z", "NONE"), KeyEvent("Backspace", "", "NONE")}

FilterAnswers == {Env(TRUE, 0, 0, ok, n, 0, 0, 0) : ok \in BOOLEAN, n \in 0..MaxScripts}

FilterEvents == {Event_Key(key) : key \in FilterKeys} \cup {Event_ProjectReload}

FilterInit == OrchInit(FALSE, 0, FALSE)

FilterNext ==
    \/ \E env \in FilterStart : Run(env)
    \/ \E event \in FilterEvents : \E env \in FilterAnswers : Deliver(event, env)

SpecFilter == FilterInit /\ [][FilterNext]_vars

\* Following the output: the output panel is focused and scrolled up and
\* down, the palette and the help overlay are opened and closed, and the
\* project is reloaded, which appends lines, with a detection that succeeds
\* or fails.
FollowStart == {Env(TRUE, 0, 0, TRUE, MaxScripts, 0, 0, 0)}

FollowKeys ==
    {KeyBindings.up, KeyBindings.down, KeyBindings.backtab, KeyBindings.palette,
     KeyBindings.help, KeyBindings.escape, KeyBindings.refresh}

FollowAnswers == {Env(TRUE, 0, 0, ok, MaxScripts, 0, 0, 0) : ok \in BOOLEAN}

FollowInit == OrchInit(FALSE, 0, FALSE)

FollowNext ==
    \/ \E env \in FollowStart : Run(env)
    \/ \E key \in FollowKeys : \E env \in FollowAnswers : Deliver(Event_Key(key), env)

SpecFollow == FollowInit /\ [][FollowNext]_vars

\* Focus sessions: the configured duration is indefinite (0) or up to
\* MaxDuration minutes; the focus key enters focus mode, escape leaves it,
\* the timer tasks run beside the loop, and the input translator can end.
FocusStart == {Quiet}

FocusKeys == {KeyBindings.focus, KeyBindings.escape}

FocusInit == \E duration \in 0..MaxDuration : OrchInit(FALSE, duration, FALSE)

FocusNext ==
    \/ \E env \in FocusStart : Run(env)
    \/ \E key \in FocusKeys : Deliver(Event_Key(key), Quiet)
    \/ Dequeue(Quiet)
    \/ InputEnd
    \/ \E t \in Timers : Second(t)
    \/ \E t \in Timers : TimerTick(t)
    \/ \E t \in Timers : TimerCancel(t)

SpecFocus == FocusInit /\ [][FocusNext]_vars

\* Runs of App::run: the initial render succeeds or fails; afterwards the
\* focus key enters an indefinite session, escape leaves it, the quit key
\* quits, Tick renders with a draw that succeeds or fails, the input
\* translator can end, and the timer tasks run beside the loop.
RunStart == {Env(ok, 0, 0, TRUE, 0, 0, 0, 0) : ok \in BOOLEAN}

RunKeys == {KeyBindings.focus, KeyBindings.escape, KeyBindings.quit}

RunInit == OrchInit(FALSE, 0, FALSE)

RunNext ==
    \/ \E env \in RunStart : Run(env)
    \/ \E key \in RunKeys : Deliver(Event_Key(key), Quiet)
    \/ \E env \in RunStart : Deliver(Event_Tick, env)
    \/ Dequeue(Quiet)
    \/ InputEnd
    \/ \E t \in Timers : Second(t)
    \/ \E t \in Timers : TimerTick(t)
    \/ \E t \in Timers : TimerCancel(t)

SpecRun == RunInit /\ [][RunNext]_vars

\* Leaving focus mode: the configured duration is indefinite or one minute;
\* the focus key enters focus mode, escape and the quit key leave it, the
\* enter key is one that handle_focus_key ignores, and the timer tasks run
\* beside the loop.
LeaveKeys == {KeyBindings.focus, KeyBindings.escape, KeyBindings.quit, KeyBindings.enter}

LeaveNext ==
    \/ \E env \in FocusStart : Run(env)
    \/ \E key \in LeaveKeys : Deliver(Event_Key(key), Quiet)
    \/ Dequeue(Quiet)
    \/ \E t \in Timers : Second(t)
    \/ \E t \in Timers : TimerTick(t)
    \/ \E t \in Timers : TimerCancel(t)

LeaveInit == \E duration \in {0, 1} : OrchInit(FALSE, duration, FALSE)

SpecLeave == LeaveInit /\ [][LeaveNext]_vars

\* Executions: a project with MaxScripts scripts is detected at startup;
\* Enter runs the selected action, Down selects the next one; a command's
\* child writes up to MaxChildLines lines and exits with or without
\* success, or the execution cannot be set up.
ActStart == {Env(TRUE, 0, 0, TRUE, MaxScripts, 0, 0, 0)}

ActKeys == {KeyBindings.enter, KeyBindings.down}

ActAnswers == {Env(TRUE, 0, 0, TRUE, MaxScripts, 0, 0, n) : n \in 0..MaxChildLines}

ActInit == OrchInit(FALSE, 0, FALSE)

ActNext ==
    \/ \E env \in ActStart : Run(env)
    \/ \E key \in ActKeys : \E env \in ActAnswers : Deliver(Event_Key(key), env)
    \/ Dequeue(Quiet)
    \/ \E k \in Tasks : TaskWrite(k)
    \/ \E k \in Tasks : \E success \in BOOLEAN : TaskExit(k, success)
    \/ \E k \in Tasks : TaskError(k)
    \/ \E k \in Tasks : TaskCollect(k)
    \/ \E k \in Tasks : TaskComplete(k)

SpecAct == ActInit /\ [][ActNext]_vars

\* The confirmation dialog.  No code of the repository constructs
\* AppMode::Confirm today, so no run of the program from App::new reaches
\* handle_confirm_key's branches; handle_key dispatches to it all the same.
\* This specification starts where the dialog for the first script is open
\* in an application that has started, and goes on with the keys of the
\* dialog and of the dashboard.
Started(env) ==
    refresh_docker(
        refresh_ports(
            detect_project([state |-> AppState_new, app |-> App_new(FALSE, 0, FALSE),
                            bus |-> NoBus, timers |-> [t \in Timers |-> NoTimer],
                            tasks |-> [k \in Tasks |-> NoTask], now |-> 0,
                            result |-> "Continue", overflow |-> FALSE, updates |-> <<>>], env),
            env),
        env)

ConfirmKeys ==
    {KeyEvent("Char", "y", "NONE"), KeyEvent("Char", "n", "NONE"), KeyBindings.enter,
     KeyBindings.down}

ConfirmInit ==
    \E env \in ActStart :
       /\ lock = [writer |-> 0, readers |-> {}]
       /\ callers = [c \in Callers |->
                        [pc |-> "idle", op |-> "none", before |-> AppState_new]]
       /\ order = <<>>
       /\ notices = <<>>
       /\ state = [Started(env).state EXCEPT !.mode = Confirm("script:dev")]
       /\ app = Started(env).app
       /\ run = [NotRunning EXCEPT !.pc = "loop"]
       /\ handled = NothingHandled
       /\ bus = EventHandler_new
       /\ timers = [t \in Timers |-> NoTimer]
       /\ tasks = [k \in Tasks |-> NoTask]
       /\ now = 0
       /\ exec = NoExec
       /\ call = NoCall

ConfirmNext ==
    \/ \E key \in ConfirmKeys : \E env \in ActAnswers : Deliver(Event_Key(key), env)
    \/ Dequeue(Quiet)
    \/ \E k \in Tasks : TaskWrite(k)
    \/ \E k \in Tasks : \E success \in BOOLEAN : TaskExit(k, success)
    \/ \E k \in Tasks : TaskError(k)
    \/ \E k \in Tasks : TaskCollect(k)
    \/ \E k \in Tasks : TaskComplete(k)
    \/ \E k \in Tasks : ConfirmResume(k)

SpecConfirm == ConfirmInit /\ [][ConfirmNext]_vars

\* The palette.  The application has started with a project of MaxScripts
\* scripts and an indefinite focus duration, and the keys have opened the
\* palette, typed "h" into its filter or not, and stepped down to any of
\* the actions listed; the specification starts there.  Then enter runs
\* the selected action, escape closes the palette, the palette key opens it
\* again and the focus key enters focus mode; a command's child writes nothing and exits, or cannot be set up,
\* and a focus timer ends when it is cancelled.
RECURSIVE KeysHandled(_, _, _)
KeysHandled(c, keys, env) ==
    IF keys = <<>> THEN c
    ELSE KeysHandled(handle_key(c, Head(keys), env), Tail(keys), env)

PaletteOpened(typed, downs) ==
    KeysHandled([Started(Env(TRUE, 0, 0, TRUE, MaxScripts, 0, 0, 0)) EXCEPT
                   !.bus = EventHandler_new, !.updates = <<>>],
                <<KeyBindings.palette>>
                  \o (IF typed THEN <<KeyEvent("Char", "h", "NONE")>> ELSE <<>>)
                  \o [i \in 1..downs |-> KeyBindings.down],
                Quiet)

PaletteKeys ==
    {KeyBindings.palette, KeyBindings.enter, KeyBindings.escape, KeyBindings.focus}

PaletteAnswers == {Env(TRUE, 0, 0, ok, MaxScripts, 0, 0, 0) : ok \in BOOLEAN}

PaletteInit ==
    \E typed \in BOOLEAN : \E downs \in 0..(Len(system_actions) + MaxScripts - 1) :
       /\ lock = [writer |-> 0, readers |-> {}]
       /\ callers = [c \in Callers |->
                        [pc |-> "idle", op |-> "none", before |-> AppState_new]]
       /\ order = <<>>
       /\ notices = <<>>
       /\ state = PaletteOpened(typed, downs).state
       /\ app = PaletteOpened(typed, downs).app
       /\ run = [NotRunning EXCEPT !.pc = "loop"]
       /\ handled = NothingHandled
       /\ bus = EventHandler_new
       /\ timers = [t \in Timers |-> NoTimer]
       /\ tasks = [k \in Tasks |-> NoTask]
       /\ now = 0
       /\ exec = NoExec
       /\ call = NoCall

PaletteNext ==
    \/ \E key \in PaletteKeys : \E env \in PaletteAnswers : Deliver(Event_Key(key), env)
    \/ Dequeue(Quiet)
    \/ \E t \in Timers : TimerCancel(t)
    \/ \E k \in Tasks : \E success \in BOOLEAN : TaskExit(k, success)
    \/ \E k \in Tasks : TaskError(k)
    \/ \E k \in Tasks : TaskCollect(k)
    \/ \E k \in Tasks : TaskComplete(k)

SpecPalette == PaletteInit /\ [][PaletteNext]_vars

\* Maintenance events.  The application has started with MaxLen ports and
\* environment variables in its panels, and the keys have opened the palette, typed "v"
\* into its filter (which leaves the script dev) and run it; the
\* specification starts there.  Then the keys open and close the palette,
\* the help and focus mode; the terminal is resized; Tick renders, with a
\* draw that succeeds or fails; SlowTick finds no port and no container,
\* or cannot list the containers; the command's child writes nothing and exits, and the
\* clock moves on by the life of a notification.
MaintStarted ==
    KeysHandled([Started(Env(TRUE, MaxLen, MaxLen, TRUE, MaxScripts, MaxLen, 0, 0)) EXCEPT
                   !.bus = EventHandler_new, !.updates = <<>>],
                <<KeyBindings.palette, KeyEvent("Char", "v", "NONE"), KeyBindings.enter>>,
                Quiet)

MaintKeys ==
    {KeyBindings.palette, KeyBindings.help, KeyBindings.focus, KeyBindings.escape}

MaintAnswers(event) ==
    CASE event.type = "SlowTick" -> {Env(TRUE, 0, n, TRUE, 0, 0, 0, 0) : n \in {-1, 0}}
      [] event.type \in {"Tick", "Resize"} ->
           {Env(ok, 0, 0, TRUE, 0, 0, 0, 0) : ok \in BOOLEAN}
      [] OTHER -> {Quiet}

MaintEvents ==
    {Event_Key(key) : key \in MaintKeys}
      \cup {Event_Resize(100, 30), Event_Tick, Event_SlowTick}

MaintInit ==
    /\ lock = [writer |-> 0, readers |-> {}]
    /\ callers = [c \in Callers |-> [pc |-> "idle", op |-> "none", before |-> AppState_new]]
    /\ order = <<>>
    /\ notices = <<>>
    /\ state = MaintStarted.state
    /\ app = [MaintStarted.app EXCEPT !.docker_client = TRUE]
    /\ run = [NotRunning EXCEPT !.pc = "loop"]
    /\ handled = NothingHandled
    /\ bus = MaintStarted.bus
    /\ timers = MaintStarted.timers
    /\ tasks = MaintStarted.tasks
    /\ now = 0
    /\ exec = NoExec
    /\ call = NoCall

MaintNext ==
    \/ \E event \in MaintEvents : \E env \in MaintAnswers(event) : Deliver(event, env)
    \/ Dequeue(Quiet)
    \/ Clock(NotificationTtlMs)
    \/ \E t \in Timers : TimerCancel(t)
    \/ \E k \in Tasks : TaskExit(k, TRUE)
    \/ \E k \in Tasks : TaskCollect(k)
    \/ \E k \in Tasks : TaskComplete(k)

SpecMaint == MaintInit /\ [][MaintNext]_vars

\* Stale events.  The application has started with a configured duration
\* of one minute and the focus key has entered focus mode; the session is
\* followed from its last two seconds (the timer task has sent 58 ticks,
\* which the loop has handled).  Then escape leaves focus mode, the palette
\* and help keys open the palette and the help, the focus key enters focus
\* mode again, and the timer tasks run beside the loop.
StaleEntered ==
    LET started == [Started(Quiet) EXCEPT !.bus = EventHandler_new, !.updates = <<>>,
                                          !.app.config.default_duration = 1]
    IN KeysHandled(started, <<KeyBindings.focus>>, Quiet)

StaleKeys ==
    {KeyBindings.escape, KeyBindings.palette, KeyBindings.help, KeyBindings.focus}

StaleInit ==
    /\ lock = [writer |-> 0, readers |-> {}]
    /\ callers = [c \in Callers |-> [pc |-> "idle", op |-> "none", before |-> AppState_new]]
    /\ order = <<>>
    /\ notices = <<>>
    /\ state = [StaleEntered.state EXCEPT !.mode.remaining_seconds = 2]
    /\ app = StaleEntered.app
    /\ run = [NotRunning EXCEPT !.pc = "loop"]
    /\ handled = NothingHandled
    /\ bus = StaleEntered.bus
    /\ timers = [StaleEntered.timers EXCEPT
                   ![StaleEntered.app.focus_controller].elapsed = SecondsPerMinute - 2,
                   ![StaleEntered.app.focus_controller].due = FALSE]
    /\ tasks = StaleEntered.tasks
    /\ now = 0
    /\ exec = NoExec
    /\ call = NoCall

StaleNext ==
    \/ \E key \in StaleKeys : Deliver(Event_Key(key), Quiet)
    \/ Dequeue(Quiet)
    \/ \E t \in Timers : Second(t)
    \/ \E t \in Timers : TimerTick(t)
    \/ \E t \in Timers : TimerCancel(t)

SpecStale == StaleInit /\ [][StaleNext]_vars

\* Failing collaborators.  The application has started with a project of
\* MaxScripts scripts, MaxLen environment variables and MaxLen expected
\* ports, and with MaxLen active ports; a Docker client is connected.  Then
\* the refresh key reloads the project, which is detected with one script
\* less and nothing else, or is not detected; SlowTick finds MaxLen or no
\* ports and containers, or the port scan or the container listing fails;
\* the down key moves the selection of the actions panel.
FailStarted == Started(Env(TRUE, MaxLen, MaxLen, TRUE, MaxScripts, MaxLen, MaxLen, 0))

FailKeys == {KeyBindings.refresh, KeyBindings.down}

FailAnswers(event) ==
    CASE event.type = "SlowTick" ->
           {Env(TRUE, p, d, TRUE, 0, 0, 0, 0) : p \in {-1, 0, MaxLen}, d \in {-1, MaxLen}}
      [] OTHER ->
           {Env(TRUE, 0, 0, ok, MaxScripts - 1, 0, 0, 0) : ok \in BOOLEAN}

FailEvents == {Event_Key(key) : key \in FailKeys} \cup {Event_SlowTick}

FailInit ==
    /\ lock = [writer |-> 0, readers |-> {}]
    /\ callers = [c \in Callers |-> [pc |-> "idle", op |-> "none", before |-> AppState_new]]
    /\ order = <<>>
    /\ notices = <<>>
    /\ state = FailStarted.state
    /\ app = [FailStarted.app EXCEPT !.docker_client = TRUE]
    /\ run = [NotRunning EXCEPT !.pc = "loop"]
    /\ handled = NothingHandled
    /\ bus = EventHandler_new
    /\ timers = FailStarted.timers
    /\ tasks = FailStarted.tasks
    /\ now = 0
    /\ exec = NoExec
    /\ call = NoCall

FailNext ==
    \/ \E event \in FailEvents : \E env \in FailAnswers(event) : Deliver(event, env)

SpecFail == FailInit /\ [][FailNext]_vars

\* One execution: execute() is called with a sink of capacity 1 to
\* MaxCapacity whose receiver keeps receiving (as the output collector of
\* execute_selected_action does); the child writes up to MaxChildLines
\* lines, each blank, plain, an escape sequence alone, text with an escape
\* sequence and a carriage return, or not valid UTF-8, and exits with code
\* 0 or 1.  The terminal, the spawn, the reader's handle and the wait can
\* each fail.
ChildLines ==
    {<<>>, <<"a">>, <<ESC, "[", "1", "m">>, <<ESC, "[", "1", "m", "a", CR>>, <<BAD>>}

ExitCodes == {0, 1}

SetupOutcomes == {"ok", "openpty", "spawn_command", "try_clone_reader"}

ExecInit ==
    /\ state = AppState_new
    /\ lock = [writer |-> 0, readers |-> {}]
    /\ callers = [c \in Callers |-> [pc |-> "idle", op |-> "none", before |-> AppState_new]]
    /\ order = <<>>
    /\ notices = <<>>
    /\ app = App_new(FALSE, 0, FALSE)
    /\ run = NotRunning
    /\ handled = NothingHandled
    /\ bus = NoBus
    /\ timers = [t \in Timers |-> NoTimer]
    /\ tasks = [k \in Tasks |-> NoTask]
    /\ now = 0
    /\ \E capacity \in 1..MaxCapacity : exec = called(capacity)
    /\ call = NoCall

ExecNext ==
    \/ \E outcome \in SetupOutcomes : Setup(outcome)
    \/ \E line \in ChildLines : ChildWrite(line)
    \/ \E code \in ExitCodes : ChildExit(code)
    \/ ReaderLine
    \/ ReaderFail
    \/ ReaderEof
    \/ MainWait
    \/ MainWaitFails
    \/ MainJoin
    \/ MainSendExit
    \/ Receive

SpecExec == ExecInit /\ [][ExecNext]_vars

\* One execution with every behaviour of the sink's receiver: it drains
\* the sink (the output collector of execute_selected_action), it is held
\* and never polled (the _rx of handle_confirm_key), or it is dropped, at
\* the start or at any later moment.  The threads are scheduled fairly:
\* a step of the reader thread, of the main thread or of a draining
\* receiver that stays possible is taken.  The child is not obliged to
\* write or to exit, nor the receiver to be dropped.
SinkInit ==
    /\ state = AppState_new
    /\ lock = [writer |-> 0, readers |-> {}]
    /\ callers = [c \in Callers |-> [pc |-> "idle", op |-> "none", before |-> AppState_new]]
    /\ order = <<>>
    /\ notices = <<>>
    /\ app = App_new(FALSE, 0, FALSE)
    /\ run = NotRunning
    /\ handled = NothingHandled
    /\ bus = NoBus
    /\ timers = [t \in Timers |-> NoTimer]
    /\ tasks = [k \in Tasks |-> NoTask]
    /\ now = 0
    /\ \E capacity \in 1..MaxCapacity : exec = called(capacity)
    /\ \E receiver \in {"draining", "held", "dropped"} :
          call = [fn |-> "sink", receiver |-> receiver]

SinkNext ==
    \/ \E outcome \in SetupOutcomes : Setup(outcome)
    \/ \E line \in ChildLines : ChildWrite(line)
    \/ \E code \in ExitCodes : ChildExit(code)
    \/ ReaderStep
    \/ MainStep
    \/ MainWaitFails
    \/ SinkReceive
    \/ ReceiverDrop

SpecSink ==
    /\ SinkInit
    /\ [][SinkNext]_vars
    /\ WF_vars(ReaderStep)
    /\ WF_vars(MainStep)
    /\ WF_vars(SinkReceive)

\* Notifications: commands without output are run and complete, fail or
\* cannot be set up, which notifies; the wall clock shows the instants
\* around a notification's time to live, in any order; Tick removes the
\* expired notifications.
Instants == {0, 1, NotificationTtlMs - 1, NotificationTtlMs, NotificationTtlMs + 1}

NotifyInit == OrchInit(FALSE, 0, FALSE)

NotifyNext ==
    \/ \E env \in ActStart : Run(env)
    \/ \E key \in ActKeys : \E env \in ActStart : Deliver(Event_Key(key), env)
    \/ Deliver(Event_Tick, Quiet)
    \/ Dequeue(Quiet)
    \/ \E k \in Tasks : \E success \in BOOLEAN : TaskExit(k, success)
    \/ \E k \in Tasks : TaskError(k)
    \/ \E k \in Tasks : TaskCollect(k)
    \/ \E k \in Tasks : TaskComplete(k)
    \/ \E t \in Instants : Clock(t)

SpecNotify == NotifyInit /\ [][NotifyNext]_vars

\* The program at rest, with the call c of a function about to be made.
CallInit(c) ==
    /\ state = AppState_new
    /\ lock = [writer |-> 0, readers |-> {}]
    /\ callers = [k \in Callers |-> [pc |-> "idle", op |-> "none", before |-> AppState_new]]
    /\ order = <<>>
    /\ notices = <<>>
    /\ app = App_new(FALSE, 0, FALSE)
    /\ run = NotRunning
    /\ handled = NothingHandled
    /\ bus = NoBus
    /\ timers = [t \in Timers |-> NoTimer]
    /\ tasks = [k \in Tasks |-> NoTask]
    /\ now = 0
    /\ exec = NoExec
    /\ call = c

\* Focus sessions: the duration is 0 to MaxMinutes minutes, 99 or 100
\* minutes, the largest whose seconds fit 32 bits, the next one, or
\* u32::MAX; the elapsed time is any number of seconds up to one beyond
\* MaxMinutes minutes, or u32::MAX; the build checks overflow or does not.
LastFitting == u32_div(u32_MAX, SecondsPerMinute)

Durations ==
    {u32(n) : n \in 0..MaxMinutes} \cup
    {u32(99), u32(100), LastFitting, [LastFitting EXCEPT !.lo = @ + 1], u32_MAX}

Elapsed == {u32(n) : n \in 0..(SecondsPerMinute * MaxMinutes + 1)} \cup {u32_MAX}

SessionInit ==
    \E d \in Durations : \E e \in Elapsed : \E overflow_checks \in BOOLEAN :
        CallInit([fn |-> "session", session |-> FocusSession(d, e),
                  overflow_checks |-> overflow_checks, out |-> Returned(FALSE)])

SessionNext ==
    \/ RemainingSeconds
    \/ IsComplete
    \/ FormatRemaining

SpecSession == SessionInit /\ [][SessionNext]_vars

\* One timer task: the duration is indefinite, one minute, the largest
\* whose seconds fit 32 bits, the next one, or u32::MAX.  The task is
\* followed from its start, and the task of an indefinite session also
\* from its tick number u32::MAX - 2: every tick of an indefinite session
\* does nothing to the task but add one to elapsed, which started at 0.
TimerDurations ==
    {u32(0), u32(1), LastFitting, [LastFitting EXCEPT !.lo = @ + 1], u32_MAX}

FollowedFrom(duration_minutes) ==
    IF duration_minutes = u32(0) THEN {u32(0), [u32_MAX EXCEPT !.lo = @ - 2]}
    ELSE {u32(0)}

TimerInit ==
    \E d \in TimerDurations : \E e \in FollowedFrom(d) : \E overflow_checks \in BOOLEAN :
        CallInit([fn |-> "timer_task", pc |-> "running", duration_minutes |-> d,
                  elapsed |-> e, from |-> e, overflow_checks |-> overflow_checks,
                  events |-> <<>>])

TimerNext ==
    \/ TaskTick
    \/ TaskCancel

SpecTimer == TimerInit /\ [][TimerNext]_vars

\* The total seconds of one session, computed in the three places that
\* do, in any order: enter_focus_mode's initial remaining_seconds,
\* FocusSession::remaining_seconds at elapsed 0, and timer_task's
\* total_seconds.
TotalInit ==
    \E d \in Durations : \E overflow_checks \in BOOLEAN :
        CallInit([fn |-> "totals", duration_minutes |-> d,
                  overflow_checks |-> overflow_checks,
                  computed |-> {}, mode |-> Returned(u32(0)),
                  session |-> Returned(u32(0)), task |-> Returned(u32(0))])

TotalNext ==
    \/ ModeTotal
    \/ SessionTotal
    \/ TaskTotal

SpecTotal == TotalInit /\ [][TotalNext]_vars

\* One focus controller: every configuration of do-not-disturb, window
\* minimizing and ambient sound, with an indefinite or a one-minute session;
\* the collaborators of enter and of exit answer Ok or Err.
ControllerInit ==
    \E duration \in {0, 1} : \E dnd, minimize, ambient \in BOOLEAN :
        CallInit([fn |-> "controller", pc |-> "new", timer |-> "none",
                  timer_at_exit |-> "none",
                  config |-> FocusModeConfig(duration, dnd, minimize, ambient),
                  calls |-> <<>>, result |-> "none"])

ControllerNext ==
    \/ \E ok \in BOOLEAN : ControllerEnter(ok)
    \/ ControllerTimerEnds
    \/ \E ok \in BOOLEAN : ControllerExit(ok)

SpecController == ControllerInit /\ [][ControllerNext]_vars

\* Registries: the analyzers find up to MaxFound scripts, in any order, any
\* of them under a name found before and with another command; analyze
\* sorts and deduplicates them, the registry is built and asked for the id
\* of a script, of a system action, or of no action.
FoundScripts ==
    {[name |-> ScriptNames[i], command |-> command,
      has_description |-> FALSE, description |-> ""] :
        i \in 1..Len(ScriptNames), command \in {"npm run dev", ""}}

AskedIds == {"script:dev", "script:build", "system:quit", "script:?"}

RegistryInit ==
    \E n \in 0..MaxFound : \E found \in [1..n -> FoundScripts] :
        CallInit([fn |-> "analyze", pc |-> "collected", scripts |-> found,
                  registry |-> <<>>, id |-> "", got |-> Action("none", "", "", FALSE, "")])

RegistryNext ==
    \/ AnalyzeSort
    \/ AnalyzeDedup
    \/ RegistryBuild
    \/ \E id \in AskedIds : RegistryGet(id)

SpecRegistry == RegistryInit /\ [][RegistryNext]_vars

\* The output panel, focused.  It is followed from its construction and
\* from the state that OutputMaxLines - 2 pushes leave (autoscroll on, the
\* offset on the last line), so that the panel fills and drops its oldest
\* lines; up to MaxOutput further lines are pushed, and the up and down
\* keys scroll, in any order.
Filled(n) ==
    [AppState_new EXCEPT
       !.focus_panel = "Output",
       !.panels.output.lines = [i \in 1..n |-> [content |-> "Detecting project...",
                                                 stream |-> "System"]],
       !.panels.output.scroll_offset = saturating_sub(n, 1)]

ScrollInit ==
    \E n \in {0, OutputMaxLines - 2} :
       /\ state = Filled(n)
       /\ lock = [writer |-> 0, readers |-> {}]
       /\ callers = [k \in Callers |->
                        [pc |-> "idle", op |-> "none", before |-> AppState_new]]
       /\ order = <<>>
       /\ notices = <<>>
       /\ app = App_new(FALSE, 0, FALSE)
       /\ run = NotRunning
       /\ handled = NothingHandled
       /\ bus = NoBus
       /\ timers = [t \in Timers |-> NoTimer]
       /\ tasks = [k \in Tasks |-> NoTask]
       /\ now = 0
       /\ exec = NoExec
       /\ call = [fn |-> "output"]

ScrollNext == PanelPush \/ PanelUp \/ PanelDown

SpecScroll == ScrollInit /\ [][ScrollNext]_vars

\* Pushes: the output panel after n numbered pushes, from its construction
\* (n = 0) and from two lines before it is full; up to MaxOutput further lines
\* are pushed, on any stream.
Numbered(n) ==
    [AppState_new EXCEPT
       !.panels.output.lines = [i \in 1..n |-> [content |-> i, stream |-> "Stdout"]],
       !.panels.output.scroll_offset = saturating_sub(n, 1)]

PushInit ==
    \E n \in {0, OutputMaxLines - 2} :
       /\ state = Numbered(n)
       /\ lock = [writer |-> 0, readers |-> {}]
       /\ callers = [k \in Callers |->
                        [pc |-> "idle", op |-> "none", before |-> AppState_new]]
       /\ order = <<>>
       /\ notices = <<>>
       /\ app = App_new(FALSE, 0, FALSE)
       /\ run = NotRunning
       /\ handled = NothingHandled
       /\ bus = NoBus
       /\ timers = [t \in Timers |-> NoTimer]
       /\ tasks = [k \in Tasks |-> NoTask]
       /\ now = 0
       /\ exec = NoExec
       /\ call = [fn |-> "pushes", first |-> n, pushed |-> n, last |-> "Stdout"]

PushNext == \E stream \in {"Stdout", "Stderr", "System"} : PushNumbered(stream)

SpecPush == PushInit /\ [][PushNext]_vars

\* Concurrent executions: two commands have been started and run in their
\* tasks; the child of each writes up to MaxChildLines lines, which its
\* reader thread pushes to a sink of capacity MaxCapacity and its collector
\* moves to the output panel, and exits with or without success.
Executions == {1, 2}

OrderInit ==
    \E totals \in [Executions -> 0..MaxChildLines] :
       /\ CallInit([fn |-> "executions",
                    ex |-> [k \in Executions |->
                              [pc |-> "executing", total |-> totals[k], pushed |-> 0,
                               chan |-> <<>>]]])

OrderNext ==
    \/ \E k \in Executions : OrderReaderPush(k)
    \/ \E k \in Executions : \E success \in BOOLEAN : OrderExit(k, success)
    \/ \E k \in Executions : OrderCollect(k)
    \/ \E k \in Executions : OrderComplete(k)

SpecOrder == OrderInit /\ [][OrderNext]_vars

\* Stripping: every line of up to MaxLine characters among ESC, '[', a
\* letter, a digit and a carriage return is cleaned.
StripChars == {ESC, "[", "a", "1", CR}

StripLines == UNION {[1..n -> StripChars] : n \in 0..MaxLine}

StripInit == \E s \in StripLines : CallInit([fn |-> "line", s |-> s])

StripNext == Strip

SpecStrip == StripInit /\ [][StripNext]_vars

\* Caller c is inside update, between taking and releasing the write lock.
Writing(c) == callers[c].pc \in {"locked", "mutating", "mutated", "sent"}

(***************************************************************************)
(* C1: under any set of concurrent callers of StateStore.update, the state *)
(* equals the sequential left fold of the mutators in the order their      *)
(* calls took the store whenever no update is in progress (so no update is *)
(* lost and each is applied exactly once), a mutator runs only while its   *)
(* caller alone holds the lock, and a snapshot never sees a half-applied   *)
(* mutation.                                                               *)
(***************************************************************************)
C1_UpdatesLinearized ==
    /\ \A c \in Callers : Writing(c) => (lock.writer = c /\ lock.readers = {})
    /\ (\A c \in Callers : ~Writing(c)) => state = Fold(order, StoreInitState)
    /\ \A c \in Callers :
          callers[c].pc \in {"reading", "done"} =>
              \E n \in 0..Len(order) :
                  callers[c].before = Fold(SubSeq(order, 1, n), StoreInitState)
    /\ Len(order) = Cardinality({c \in Callers : Writing(c) \/
                                   (callers[c].pc = "done" /\ callers[c].op # "snapshot")})

\* All callers are done, every one an update, a scroll came before a push,
\* and the result differs from what another order of the same kind gives.
C1_Witness ==
    /\ \A c \in Callers : callers[c].pc = "done"
    /\ Len(order) = NCallers
    /\ \E i, j \in 1..Len(order) : i < j /\ order[i] = "scroll_up" /\ order[j] = "stdout"
    /\ state # Fold(<<"stdout", "scroll_up", "stdout">>, StoreInitState)

(***************************************************************************)
(* C2: whenever the mode is Dashboard and the palette key is handled, the  *)
(* resulting state has mode CommandPalette, an empty actions filter and    *)
(* actions selected_index 0, whatever the selection was before.            *)
(***************************************************************************)
C2_PaletteKeyOpensPalette ==
    (/\ handled.event.type = "Key"
     /\ handled.event.key = KeyBindings.palette
     /\ handled.mode = "Dashboard")
    => /\ state.mode = CommandPalette
       /\ state.panels.actions.filter = <<>>
       /\ state.panels.actions.selected_index = 0

\* The palette key was handled in Dashboard with an action other than the
\* first one selected.
C2_Witness ==
    /\ handled.event.type = "Key"
    /\ handled.event.key = KeyBindings.palette
    /\ handled.mode = "Dashboard"
    /\ handled.selected > 0
    /\ state.mode = CommandPalette

(***************************************************************************)
(* C3: for every panel (Actions, Docker, Ports, Env) whose collection has  *)
(* a fixed length len, after any sequence of Up/Down navigation (Dashboard *)
(* navigate_up/navigate_down and the palette's Up/Down),                   *)
(* 0 <= selected_index <= max(0, len - 1), also when len = 0.              *)
(***************************************************************************)
C3_NavigationWithinBounds ==
    /\ state.panels.actions.selected_index
           \in 0..Max(0, Len(state.panels.actions.filtered_indices) - 1)
    /\ state.panels.docker.selected_index
           \in 0..Max(0, Len(state.panels.docker.containers) - 1)
    /\ state.panels.ports.selected_index
           \in 0..Max(0, Len(state.panels.ports.active_ports) - 1)
    /\ state.panels.env.selected_index
           \in 0..Max(0, Len(state.panels.env.variables) - 1)

\* Down was handled with the last of several actions selected and left the
\* selection there, while the Docker panel's selection is at its last
\* container and the Env panel is empty.
C3_Witness ==
    /\ handled.event.type = "Key"
    /\ handled.event.key = KeyBindings.down
    /\ handled.selected = Len(state.panels.actions.filtered_indices) - 1
    /\ handled.selected > 0
    /\ state.panels.actions.selected_index = handled.selected
    /\ \/ /\ Len(state.panels.docker.containers) = MaxLen
          /\ state.panels.docker.selected_index = MaxLen - 1
       \/ /\ state.panels.env.variables = <<>>
          /\ state.panels.ports.selected_index = MaxLen - 1

\* index selects an element of a collection of length len, or is 0 when
\* the collection is empty.
Clamped(index, len) == IF len = 0 THEN index = 0 ELSE index \in 0..(len - 1)

(***************************************************************************)
(* C4: in every reachable state every panel's selected_index lies in       *)
(* [0, collection length - 1], and is 0 when the collection is empty, also *)
(* right after a refresh replaced the collection with a shorter one.       *)
(* The code does not keep this: refresh_docker, refresh_ports and          *)
(* detect_project replace containers, active_ports and the environment     *)
(* variables without touching the selection.                               *)
(***************************************************************************)
C4_SelectionClampedAfterRefresh ==
    /\ Clamped(state.panels.actions.selected_index,
               Len(state.panels.actions.filtered_indices))
    /\ Clamped(state.panels.docker.selected_index, Len(state.panels.docker.containers))
    /\ Clamped(state.panels.ports.selected_index, Len(state.panels.ports.active_ports))
    /\ Clamped(state.panels.env.selected_index, Len(state.panels.env.variables))

(***************************************************************************)
(* C8: after startup, event_loop exits only through a quit result or the   *)
(* end of the event stream; no failure while one event is handled makes    *)
(* the loop exit.  The code does not keep this: handle_event propagates    *)
(* the Err of a failed draw in render() with ?, and event_loop propagates  *)
(* it in turn.                                                             *)
(***************************************************************************)
C8_LoopExitsOnlyOnQuit ==
    run.pc = "returned" => run.exit \in {"quit", "end_of_stream", "startup"}

(***************************************************************************)
(* C5: if FocusModeController.exit is called before the timer's elapsed    *)
(* count has reached the finite total, the timer task never emits          *)
(* FocusModeEnded afterwards, under every interleaving of the cancel       *)
(* signal with the 1-second tick.  The code does not keep this: with the   *)
(* last tick due when the signal arrives, select! may take the tick.       *)
(***************************************************************************)
C5_NoEndedAfterExit == \A t \in Timers : timers[t].ended # "after_exit"

\* Timer task t can still emit an event: it runs, and its cancel signal is
\* not ready or a tick is due beside it.
Live(t) ==
    /\ timers[t].pc = "running"
    /\ timers[t].cancel = "open" \/ timers[t].due

(***************************************************************************)
(* C9: at every moment at most one focus timer task is live (able to emit  *)
(* FocusTimerTick or FocusModeEnded), for every sequence of focus entries  *)
(* and exits.  The code does not keep this: a timer whose cancel signal    *)
(* was sent runs until its task takes the cancel branch, and a new timer   *)
(* can be started before that.                                             *)
(***************************************************************************)
C9_AtMostOneLiveTimer == Cardinality({t \in Timers : Live(t)}) <= 1

Pushed == exec.received \o exec.chan

\* The lines of w the reader reads: those before the first line whose read
\* fails.
ReadPrefix(w) ==
    LET failing == {i \in 1..Len(w) : ~valid_utf8(w[i])}
    IN IF failing = {} THEN w ELSE SubSeq(w, 1, Least(failing) - 1)

(***************************************************************************)
(* C10: for one successful execute() call the sink receives zero or more   *)
(* Stdout lines, never a Stderr line, followed by exactly one Exit(code),  *)
(* which is the last message: no Stdout line is pushed after Exit.  The    *)
(* Stdout lines are, in order, one for each line the child wrote up to the *)
(* first line whose read fails (one per line the child wrote when every    *)
(* read succeeds).                                                         *)
(***************************************************************************)
C10_StdoutThenOneExitLast ==
    /\ \A i \in 1..Len(Pushed) : Pushed[i].type # "Stderr"
    /\ \A i \in 1..Len(Pushed) : Pushed[i].type = "Exit" => i = Len(Pushed)
    /\ exec.main = "returned" =>
          /\ Pushed # <<>>
          /\ Pushed[Len(Pushed)] = Exit(exec.child.code)
          /\ SubSeq(Pushed, 1, Len(Pushed) - 1)
                = [i \in 1..Len(ReadPrefix(exec.wrote)) |-> reader_message(exec.wrote[i])]

\* The call returned after the child wrote two lines or more, the first an
\* escape sequence alone, and the receiver has received them and the Exit.
C10_Witness ==
    /\ exec.main = "returned"
    /\ exec.chan = <<>>
    /\ Len(exec.wrote) >= 2
    /\ exec.wrote[1] = <<ESC, "[", "1", "m">>
    /\ Len(exec.received) = Len(exec.wrote) + 1
    /\ exec.received[1] = Stdout(<<ESC, "[", "1", "m">>)
    /\ exec.received[Len(exec.received)] = Exit(1)

\* C10 as stated: when the call has returned, the sink holds one Stdout
\* line per line the child wrote.
C10_OneStdoutPerLineWritten ==
    exec.main = "returned" =>
        Cardinality({i \in 1..Len(Pushed) : Pushed[i].type = "Stdout"}) = Len(exec.wrote)

(***************************************************************************)
(* C11: the ActionResult returned by execute() has success = true if and   *)
(* only if exit_code is present and equal to 0, and exit_code equals the   *)
(* code carried by the Exit line pushed to the sink.                       *)
(***************************************************************************)
C11_SuccessIffExitZero ==
    exec.result.returned = "Ok" =>
        /\ exec.result.value.success
              <=> (exec.result.value.exit_code.some /\ exec.result.value.exit_code.value = 0)
        /\ Pushed # <<>>
        /\ Pushed[Len(Pushed)].type = "Exit"
        /\ exec.result.value.exit_code = Some(Pushed[Len(Pushed)].code)

\* execute() returned a result without success: the child exited with a
\* code other than 0, which the received Exit line carries.
C11_Witness ==
    /\ exec.result.returned = "Ok"
    /\ ~exec.result.value.success
    /\ exec.result.value.exit_code = Some(1)
    /\ exec.received # <<>>
    /\ exec.received[Len(exec.received)] = Exit(1)

(***************************************************************************)
(* C13: if the allocation of the pseudo-terminal or the spawn of the       *)
(* command fails, execute() returns an error and nothing has been pushed   *)
(* to the sink: no Stdout line and no Exit line.                           *)
(***************************************************************************)
C13_SetupFailurePushesNothing ==
    exec.main = "setup_failed" => (exec.result = Err /\ Pushed = <<>>)

\* The setup failed after the child was spawned, and the child has written
\* a line that nobody reads.
C13_Witness ==
    /\ exec.main = "setup_failed"
    /\ exec.wrote # <<>>
    /\ exec.result = Err

(***************************************************************************)
(* C12: for every input string s,                                          *)
(* strip_ansi_codes(strip_ansi_codes(s)) = strip_ansi_codes(s), and        *)
(* strip_ansi_codes(s) contains no ESC and no carriage return, including   *)
(* inputs with an ESC not followed by '[' and inputs with an unterminated  *)
(* ESC '[' sequence.                                                       *)
(***************************************************************************)
C12_StripIdempotentAndClean ==
    call.fn = "strip_ansi_codes" =>
        /\ call.twice = call.once
        /\ \A i \in 1..Len(call.once) : call.once[i] \notin {ESC, CR}

\* A line was cleaned that has an ESC not followed by '[', then text, then
\* an ESC '[' sequence that is not terminated (or, in a shorter line, only
\* the two ESC and the '[').
C12_Witness ==
    /\ call.fn = "strip_ansi_codes"
    /\ Len(call.s) >= 3
    /\ call.s[1] = ESC
    /\ call.s[2] # "["
    /\ call.s[Len(call.s) - 1] = ESC
    /\ call.s[Len(call.s)] = "["
    /\ call.once = SelectSeq(SubSeq(call.s, 2, Len(call.s) - 2), LAMBDA c : c \notin {ESC, CR})

(***************************************************************************)
(* C18: every Stdout line pushed to the sink is the stripped form of the   *)
(* raw line read from the pseudo-terminal: it contains no ESC and no       *)
(* carriage return, and a raw line that strips to the empty string (blank, *)
(* or made only of escape sequences) is pushed as an empty Stdout line.    *)
(* The code does not keep this: when the stripped line is empty the reader *)
(* pushes the raw line.                                                    *)
(***************************************************************************)
C18_StdoutIsStripped ==
    \A i \in 1..Len(Pushed) :
        Pushed[i].type = "Stdout" =>
            /\ Pushed[i].text = strip_ansi_codes(exec.wrote[i])
            /\ \A j \in 1..Len(Pushed[i].text) : Pushed[i].text[j] \notin {ESC, CR}

\* Notification n has not lived its time at the instant t.
Fresh(n, t) == t - n.created_at < n.duration_ms

(***************************************************************************)
(* C14: a Tick handled at time now removes exactly the notifications with  *)
(* now - created_at >= ttl and keeps every notification with               *)
(* now - created_at < ttl.  The code does not keep this when the clock was *)
(* set back: the elapsed time is cast to u64, so a negative one counts as  *)
(* expired.                                                                *)
(***************************************************************************)
C14_TickRemovesExpired ==
    handled.event.type = "Tick" =>
        state.notifications = SelectSeq(handled.notifications, LAMBDA n : Fresh(n, now))

\* max(0, 60 * d - e) of the session, in halves and without a width.
ExpectedRemaining(session) ==
    IF u32_lt(times_60(session.duration_minutes), session.elapsed_seconds) THEN u32(0)
    ELSE u32_sub(times_60(session.duration_minutes), session.elapsed_seconds)

(***************************************************************************)
(* C15: for every FocusSession with duration_minutes d and elapsed_seconds *)
(* e: remaining_seconds() = max(0, 60*d - e); is_complete() holds iff      *)
(* d > 0 and e >= 60*d; format_remaining() is "--:--" iff d = 0 and        *)
(* otherwise the zero-padded MM:SS of remaining_seconds().  The code does  *)
(* not keep this for the durations whose seconds exceed 32 bits:           *)
(* duration_minutes * 60 overflows.                                        *)
(***************************************************************************)
C15_SessionArithmetic ==
    LET d == call.session.duration_minutes
        e == call.session.elapsed_seconds
    IN /\ call.fn = "remaining_seconds" =>
             call.out = Returned(ExpectedRemaining(call.session))
       /\ call.fn = "is_complete" =>
             call.out = Returned(d # u32(0) /\ ~u32_lt(e, times_60(d)))
       /\ call.fn = "format_remaining" =>
             call.out = Returned(IF d = u32(0) THEN <<"-", "-", ":", "-", "-">>
                                 ELSE format_02_02(ExpectedRemaining(call.session)))

\* C15 for the durations whose seconds fit 32 bits.
C15_FittingSessionArithmetic ==
    u32_lt(call.session.duration_minutes, [LastFitting EXCEPT !.lo = @ + 1])
        => C15_SessionArithmetic

\* The step in which the loop handles the enter key in CommandPalette mode.
PaletteEnter ==
    /\ handled' # handled
    /\ state.mode = CommandPalette
    /\ handled'.event = Event_Key(KeyBindings.enter)

\* The last line of the output panel.
LastLine(s) == s.panels.output.lines[Len(s.panels.output.lines)].content

\* What the step shows of the execution of action: a command is announced
\* and given to a new task, an action without command is reported, a
\* refresh has detected, a toggle has flipped its panel, the focus action
\* has started a timer and keeps its controller; the help action leaves
\* the panels and the layout as they are.
Executed(action) ==
    CASE action.id = "system:refresh" ->
           LastLine(state') \in {"Project detected", "Project detection failed"}
      [] action.id = "system:toggle_docker" ->
           state'.layout.docker_panel_visible = ~state.layout.docker_panel_visible
      [] action.id = "system:toggle_ports" ->
           state'.layout.ports_panel_visible = ~state.layout.ports_panel_visible
      [] action.id = "system:focus_mode" ->
           /\ app'.focus_controller # 0
           /\ timers[app'.focus_controller].pc # "running"
           /\ timers'[app'.focus_controller].pc = "running"
           /\ state'.layout.preset = "FocusMode"
      [] action.id = "system:help" ->
           /\ state'.layout = state.layout
           /\ state'.panels.output = state.panels.output
      [] action.command = "" ->
           /\ LastLine(state') = "Action has no command to execute"
           /\ tasks' = tasks
      [] OTHER ->
           /\ LastLine(state') = "Executing"
           /\ \E k \in Tasks : tasks[k].pc = "free" /\ tasks'[k].pc = "executing"

(***************************************************************************)
(* C16: after Enter is handled in CommandPalette mode, for every selected  *)
(* action other than system:quit (project script, empty-command action,    *)
(* system:help, system:focus_mode, system:refresh, the toggles), the       *)
(* selected action has been executed and the mode is Dashboard with the    *)
(* filter reset to "".                                                     *)
(***************************************************************************)
C16_PaletteEnterExecutesAndCloses ==
    [][LET selected == selected_action(state.panels.actions)
       IN (PaletteEnter /\ selected.has_action /\ selected.action.id # "system:quit")
            => /\ Executed(selected.action)
               /\ state'.mode = Dashboard
               /\ state'.panels.actions.filter = <<>>]_vars

\* Enter was handled in the palette with a script selected from the list
\* filtered by "h"; the command runs in its task and the palette is closed.
C16_Witness ==
    /\ handled.event = Event_Key(KeyBindings.enter)
    /\ handled.mode = "CommandPalette"
    /\ handled.action = "script:dev"
    /\ handled.selected > 0
    /\ state.mode = Dashboard
    /\ state.panels.actions.filter = <<>>
    /\ \E k \in Tasks : tasks[k].pc = "executing"

\* The step in which the loop handles an event in FocusMode.
HandledInFocusMode ==
    /\ handled' # handled
    /\ state.mode.tag = "FocusMode"

\* The events that leave focus mode.
Leaving(event) ==
    \/ event = Event_Key(KeyBindings.escape)
    \/ event = Event_Key(KeyBindings.quit)
    \/ event.type = "FocusModeEnded"

(***************************************************************************)
(* C17: from FocusMode, the escape key, the quit key, and a FocusModeEnded *)
(* event each lead to mode = Dashboard with the focus controller stopped   *)
(* (its cancel signal sent and the orchestrator's controller slot empty);  *)
(* no other key changes the mode while in FocusMode.  The signal reaches   *)
(* the timer task if it still runs.                                        *)
(***************************************************************************)
C17_LeavingFocusMode ==
    [][HandledInFocusMode =>
         /\ Leaving(handled'.event) =>
               /\ state'.mode = Dashboard
               /\ app'.focus_controller = 0
               /\ app.focus_controller # 0
               /\ timers[app.focus_controller].pc = "running"
                     => timers'[app.focus_controller].cancel = "sent"
         /\ (handled'.event.type = "Key" /\ ~Leaving(handled'.event)) =>
               state'.mode = state.mode]_vars

\* FocusModeEnded was handled in FocusMode: the mode is Dashboard and the
\* controller slot is empty.
C17_Witness ==
    /\ handled.event.type = "FocusModeEnded"
    /\ handled.mode = "FocusMode"
    /\ state.mode = Dashboard
    /\ app.focus_controller = 0

\* The quit key was handled in FocusMode while the timer ran: the timer has
\* its cancel signal and the loop goes on.
C17_WitnessQuitKey ==
    /\ handled.event = Event_Key(KeyBindings.quit)
    /\ handled.mode = "FocusMode"
    /\ state.mode = Dashboard
    /\ run.pc = "loop"
    /\ \E t \in Timers : timers[t].pc = "running" /\ timers[t].cancel = "sent"

\* The table of the mode transitions.
Allowed(from, to) ==
    \/ from = "Dashboard" /\ to \in {"CommandPalette", "Help", "FocusMode"}
    \/ from \in {"CommandPalette", "Help", "FocusMode", "Confirm"} /\ to = "Dashboard"

\* The modes the store held in the course of the last handling: the one
\* before it and the one after each of its updates.
ModesOfHandling ==
    <<handled.mode>> \o [i \in 1..Len(handled.updates) |-> handled.updates[i].mode]

(***************************************************************************)
(* C19: each state-store update changes the mode only along the table: the *)
(* initial mode is Dashboard; from Dashboard the mode changes only to      *)
(* CommandPalette, Help or FocusMode; from CommandPalette, Help, FocusMode *)
(* and Confirm the mode changes only to Dashboard.  The code does not keep *)
(* this: enter in the palette on the help or the focus action updates the  *)
(* mode from CommandPalette to Help or FocusMode.                          *)
(***************************************************************************)
C19_ModeAlongTable ==
    /\ run.pc = "new" => state.mode = Dashboard
    /\ handled # NothingHandled =>
          \A i \in 1..Len(handled.updates) :
              ModesOfHandling[i] # ModesOfHandling[i + 1]
                  => Allowed(ModesOfHandling[i], ModesOfHandling[i + 1])

(***************************************************************************)
(* C20: for every event that causes a mode transition, the mode change and *)
(* all state changes belonging to that transition (filter reset, selection *)
(* reset, layout preset, the output line announcing an execution) are      *)
(* applied by exactly one update call, so that no other task can observe   *)
(* an intermediate state of the transition: every update of the handling   *)
(* leaves what was there before the event or what is there after it.  The  *)
(* code does not keep this: enter in the palette announces the execution   *)
(* in one update and closes the palette in another.                        *)
(***************************************************************************)
C20_TransitionInOneUpdate ==
    (/\ handled # NothingHandled
     /\ \E i \in 1..Len(handled.updates) : handled.updates[i].mode # handled.mode)
    => \A i \in 1..Len(handled.updates) :
          \/ handled.updates[i] = handled.view
          \/ handled.updates[i] = handled.updates[Len(handled.updates)]

(***************************************************************************)
(* C21: StateStore.update publishes the optional change notice on the      *)
(* broadcast channel only after the exclusive lock on the state has been   *)
(* released: at the moment of the broadcast send no writer lock is held.   *)
(* The code does not keep this: the write guard lives until update         *)
(* returns, so the send is made under the lock.                            *)
(***************************************************************************)
C21_SendAfterRelease ==
    [][notices' # notices => lock.writer = 0]_vars

\* The i-th event of a timer task of total seconds that is never cancelled:
\* the ticks with remaining total - 1, ..., 0, then FocusModeEnded.
ExpectedEvent(total, i) ==
    IF ~u32_lt(total, u32(i)) THEN Event_FocusTimerTick(u32_sub(total, u32(i)))
    ELSE Event_FocusModeEnded

(***************************************************************************)
(* C22: for a finite duration d > 0 with total = 60*d, a timer task that   *)
(* is never cancelled emits exactly total FocusTimerTick events whose      *)
(* remaining values are total-1, total-2, ..., 0 in that order, then       *)
(* exactly one FocusModeEnded, then nothing more; its elapsed counter      *)
(* never exceeds total.  The code does not keep this for the durations     *)
(* whose seconds exceed 32 bits: the task counts down from u32::MAX.       *)
(***************************************************************************)
C22_FiniteCountdown ==
    LET total == times_60(call.duration_minutes)
    IN (call.fn = "timer_task" /\ call.duration_minutes # u32(0)
          /\ call.pc # "cancelled")
       => /\ \A i \in 1..Len(call.events) : call.events[i] = ExpectedEvent(total, i)
          /\ ~u32_lt(total, call.elapsed)
          /\ call.elapsed = u32(Len(SelectSeq(call.events,
                                LAMBDA e : e.type = "FocusTimerTick")))
          /\ call.pc = "ended" <=> (call.events # <<>> /\
                                    call.events[Len(call.events)] = Event_FocusModeEnded)
          /\ call.pc \in {"running", "ended"}

\* C22 for the durations whose seconds fit 32 bits.
C22_FittingFiniteCountdown ==
    u32_lt(call.duration_minutes, [LastFitting EXCEPT !.lo = @ + 1])
        => C22_FiniteCountdown

\* The task of one minute has ended: 60 ticks and FocusModeEnded.
C22_FittingWitness ==
    /\ call.fn = "timer_task"
    /\ call.duration_minutes = u32(1)
    /\ call.pc = "ended"
    /\ Len(call.events) = SecondsPerMinute + 1

(***************************************************************************)
(* C23: with duration 0 (indefinite) the timer task emits FocusTimerTick   *)
(* with remaining = 0 on every tick, never emits FocusModeEnded, and keeps *)
(* running after any number of ticks until it is cancelled (the u32        *)
(* elapsed counter is incremented on every tick).  The code does not keep  *)
(* this: at tick number 2^32 the increment overflows, and a build with     *)
(* overflow checks panics there.                                           *)
(***************************************************************************)
C23_IndefiniteRunsUntilCancelled ==
    (call.fn = "timer_task" /\ call.duration_minutes = u32(0))
    => /\ \A i \in 1..Len(call.events) : call.events[i] = Event_FocusTimerTick(u32(0))
       /\ call.pc \in {"running", "cancelled"}

\* C23 for the first u32::MAX ticks of the task.
C23_IndefiniteBeforeOverflow ==
    (call.fn = "timer_task" /\ call.from = u32(0)) => C23_IndefiniteRunsUntilCancelled

\* The step in which the loop handles an event of the type given: the
\* steps of the tasks, of the timers and of the clock record no handling.
Handling(type) ==
    /\ handled'.event.type = type
    /\ handled' # handled \/ UNCHANGED <<tasks, timers, now>>

\* The selections of the four panels.
Selections(s) ==
    <<s.panels.actions.selected_index, s.panels.docker.selected_index,
      s.panels.ports.selected_index, s.panels.env.selected_index>>

(***************************************************************************)
(* C24: Resize, Tick (render tick) and SlowTick are handled by the same    *)
(* code in every mode and never change the mode, the focused panel, the    *)
(* action filter or any panel's selected_index; Resize changes only        *)
(* terminal_size and Tick changes only the notification list.              *)
(***************************************************************************)
C24_MaintenanceEventsKeepMode ==
    [][/\ (Handling("Resize") \/ Handling("Tick") \/ Handling("SlowTick")) =>
            /\ state'.mode = state.mode
            /\ state'.focus_panel = state.focus_panel
            /\ state'.panels.actions.filter = state.panels.actions.filter
            /\ Selections(state') = Selections(state)
       /\ Handling("Resize") =>
            state' = [state EXCEPT !.terminal_size = state'.terminal_size]
       /\ Handling("Tick") =>
            state' = [state EXCEPT !.notifications = state'.notifications]]_vars

\* A Tick was handled in the palette and removed the notification of the
\* completed command.
C24_Witness ==
    /\ handled.event.type = "Tick"
    /\ handled.mode = "CommandPalette"
    /\ handled.notifications # <<>>
    /\ state.notifications = <<>>
    /\ state.mode = CommandPalette

\* The terminal was resized in focus mode, and in the help.
C24_WitnessResize ==
    /\ handled.event.type = "Resize"
    /\ handled.mode \in {"FocusMode", "Help"}
    /\ state.terminal_size = <<100, 30>>
    /\ state.mode.tag = handled.mode

\* The reader thread has ended on a read error: it left a line unread.
ReadFailed == exec.reader = "done" /\ exec.pty # <<>>

(***************************************************************************)
(* C25: if the reader thread hits a read error after k lines, those k      *)
(* lines have been pushed to the sink, the child's exit code is still      *)
(* awaited, Exit(code) is still pushed, and execute() returns Ok with that *)
(* exit code rather than an error.                                         *)
(***************************************************************************)
C25_ReadErrorKeepsPartialOutput ==
    LET k == Len(ReadPrefix(exec.wrote))
        lines == [i \in 1..k |-> reader_message(exec.wrote[i])]
    IN ReadFailed =>
         /\ exec.main \in {"wait", "wait_failed", "join", "send_exit", "returned"}
         /\ exec.main # "returned" => Pushed = lines
         /\ exec.main \in {"wait", "join", "send_exit"} => exec.result = NoResult
         /\ exec.main = "returned" =>
               /\ exec.child.pc = "exited"
               /\ Pushed = lines \o <<Exit(exec.child.code)>>
               /\ exec.result = Ok(ActionResult(Some(exec.child.code)))

\* The reader failed on the child's second line; the call has returned Ok
\* with the exit code 1, and the first line and the Exit were received.
C25_Witness ==
    /\ ReadFailed
    /\ Len(exec.wrote) >= 2
    /\ exec.wrote[1] = <<"a">>
    /\ exec.wrote[2] = <<BAD>>
    /\ exec.main = "returned"
    /\ exec.result = Ok(ActionResult(Some(1)))
    /\ exec.received = <<Stdout(<<"a">>), Exit(1)>>

\* The names of the collaborators the controller has called, in order.
CallNames == [i \in 1..Len(call.calls) |-> call.calls[i].name]

\* The position of a call in CallNames, 0 if it was not made.
Position(name) ==
    IF \E i \in 1..Len(CallNames) : CallNames[i] = name
    THEN CHOOSE i \in 1..Len(CallNames) : CallNames[i] = name
    ELSE 0

(***************************************************************************)
(* C26: FocusModeController.exit sends the cancellation signal first, then *)
(* disables do-not-disturb exactly when do-not-disturb had been enabled by *)
(* enter, then stops ambient audio in every case; it returns Ok whether    *)
(* the timer is still running or has already stopped.                      *)
(***************************************************************************)
C26_ExitOrder ==
    (call.fn = "controller" /\ call.pc = "exited") =>
        /\ call.result = "Ok"
        /\ Position("cancel_tx.send") > Position("spawn timer_task")
        /\ Position("disable_dnd") # 0 <=> Position("enable_dnd") # 0
        /\ Position("disable_dnd") # 0 => Position("disable_dnd") > Position("cancel_tx.send")
        /\ Position("stop_ambient_sound") = Len(CallNames)
        /\ Position("stop_ambient_sound") > Position("cancel_tx.send")
        /\ Cardinality({i \in 1..Len(CallNames) :
                          CallNames[i] \in {"cancel_tx.send", "stop_ambient_sound"}}) = 2
        /\ Cardinality({i \in 1..Len(CallNames) : CallNames[i] = "disable_dnd"}) <= 1

\* exit returned Ok after the timer had stopped, in a session without
\* do-not-disturb: the send failed, and only the ambient sound was stopped.
C26_Witness ==
    /\ call.fn = "controller"
    /\ call.pc = "exited"
    /\ call.result = "Ok"
    /\ call.timer_at_exit = "stopped"
    /\ ~call.config.enable_dnd
    /\ call.calls[Len(call.calls) - 1] = Called("cancel_tx.send", FALSE)
    /\ call.calls[Len(call.calls)].name = "stop_ambient_sound"

\* The step handles an event and appends a line of the content given to
\* the output panel.
Reports(content) ==
    /\ handled' # handled
    /\ Len(state'.panels.output.lines) > Len(state.panels.output.lines)
    /\ \E i \in (Len(state.panels.output.lines) + 1)..Len(state'.panels.output.lines) :
          state'.panels.output.lines[i].content = content

\* Both loading flags are off after the step.
NothingLoading == ~state'.panels.ports.loading /\ ~state'.panels.docker.loading

(***************************************************************************)
(* C27: When a collaborator call fails (port scan, container listing,      *)
(* project detection), the affected panel's cached data is unchanged       *)
(* (active_ports and conflicts; containers; actions, env variables and     *)
(* expected ports) and the panel's loading flag ends false; only a message *)
(* or error field is recorded.                                             *)
(***************************************************************************)
C27_FailureKeepsCachedData ==
    [][/\ Reports("Port scan failed") =>
            /\ state'.panels.ports = state.panels.ports
            /\ NothingLoading
       /\ (Handling("SlowTick") /\ handled' # handled /\ state'.panels.docker.error) =>
            /\ state'.panels.docker = [state.panels.docker EXCEPT !.error = TRUE]
            /\ NothingLoading
       /\ Reports("Project detection failed") =>
            /\ state'.panels.actions = state.panels.actions
            /\ state'.panels.env = state.panels.env
            /\ state'.panels.ports = state.panels.ports
            /\ state'.panels.docker = state.panels.docker
            /\ app'.action_registry = app.action_registry
            /\ NothingLoading]_vars

\* Both the port scan and the container listing have just failed while the
\* panels hold MaxLen ports, conflicts and containers; and a reload has
\* failed while the actions panel holds the project's scripts.
C27_Witness ==
    /\ handled.event.type = "SlowTick"
    /\ state.panels.docker.error
    /\ Len(state.panels.docker.containers) = MaxLen
    /\ Len(state.panels.ports.active_ports) = MaxLen
    /\ Len(state.panels.ports.conflicts) = MaxLen
    /\ state.panels.output.lines[Len(state.panels.output.lines)].content = "Port scan failed"
    /\ \E i \in 1..Len(state.panels.output.lines) :
          state.panels.output.lines[i].content = "Project detection failed"
    /\ Len(state.panels.actions.actions) = MaxScripts + 6

\* The positions of the registry built whose action has the id given.
WithId(id) == {i \in 1..Len(call.registry) : call.registry[i].id = id}

(***************************************************************************)
(* C28: In every registry built by ActionRegistry::from_project, action    *)
(* ids are pairwise distinct: the six system:* ids are distinct, every     *)
(* script id is script:<name>, and script names are distinct because       *)
(* analyze() deduplicates scripts by name; hence get(id) returns the only  *)
(* action with that id.                                                    *)
(***************************************************************************)
C28_DistinctIds ==
    (call.fn = "analyze" /\ call.pc \in {"built", "asked"}) =>
        /\ \A i, j \in 1..Len(call.registry) :
              call.registry[i].id = call.registry[j].id => i = j
        /\ Len(call.registry) = 6 + Len(call.scripts)
        /\ \A i \in 1..Len(call.scripts) :
              /\ call.registry[6 + i].id = ScriptId(call.scripts[i].name)
              /\ \A j \in 1..Len(call.scripts) :
                    call.scripts[i].name = call.scripts[j].name => i = j
        /\ call.pc = "asked" =>
              IF WithId(call.id) = {} THEN call.got.id = "none"
              ELSE \E i \in WithId(call.id) :
                      WithId(call.id) = {i} /\ call.got = call.registry[i]

\* The analyzers found dev twice, with different commands, around build;
\* the registry holds one action script:dev, and get returned it.
C28_Witness ==
    /\ call.fn = "analyze"
    /\ call.pc = "asked"
    /\ call.id = "script:dev"
    /\ Len(call.registry) = 8
    /\ call.got.id = "script:dev"
    /\ call.got.command = "npm run dev"
    /\ call.registry[7].id = "script:build"

(***************************************************************************)
(* C29: In every reachable state of the output panel, 0 <= scroll_offset   *)
(* <= max(0, lines.len() - 1), and auto_scroll == true implies             *)
(* scroll_offset == max(0, lines.len() - 1): whenever the offset is away   *)
(* from the bottom, autoscroll is off.                                     *)
(***************************************************************************)
C29_ScrollWithinLines ==
    LET output == state.panels.output
        bottom == IF Len(output.lines) > 0 THEN Len(output.lines) - 1 ELSE 0
    IN /\ 0 <= output.scroll_offset
       /\ output.scroll_offset <= bottom
       /\ output.auto_scroll => output.scroll_offset = bottom
       /\ Len(output.lines) <= output.max_lines

\* The panel is full and has dropped old lines for new ones while the
\* offset, scrolled up with autoscroll off, stayed two lines above the
\* bottom.
C29_Witness ==
    /\ call.fn = "output"
    /\ Len(state.panels.output.lines) = OutputMaxLines
    /\ state.panels.output.lines[OutputMaxLines - 3].content = "Executing"
    /\ ~state.panels.output.auto_scroll
    /\ state.panels.output.scroll_offset = OutputMaxLines - 3

(***************************************************************************)
(* C30: In every state between two event handlings, the orchestrator      *)
(* holds a live focus controller (focus_controller is Some) if and only if *)
(* the mode is FocusMode, for every way of entering focus mode: the focus  *)
(* key, system:focus_mode run from the Dashboard, and system:focus_mode    *)
(* selected in the command palette.                                        *)
(***************************************************************************)
C30_ControllerIffFocusMode ==
    run.pc = "loop" => (app.focus_controller # 0 <=> state.mode.tag = "FocusMode")

\* The direction of C30 that holds on every path: in FocusMode the
\* orchestrator holds a controller.
C30_ControllerInFocusMode ==
    (run.pc = "loop" /\ state.mode.tag = "FocusMode") => app.focus_controller # 0

\* The step handles a FocusModeEnded that was queued while the mode was
\* the one given.
StaleEndedIn(modes) ==
    /\ handled' # handled
    /\ handled'.event.type = "FocusModeEnded"
    /\ state.mode.tag \in modes

(***************************************************************************)
(* C31: Handling a FocusModeEnded event while the mode is not FocusMode (a *)
(* stale event of a controller that was already exited, still queued on   *)
(* the Event Bus) leaves the mode and the layout preset unchanged: a stale *)
(* FocusModeEnded never closes the command palette or the help overlay.    *)
(***************************************************************************)
C31_StaleEndedKeepsMode ==
    [][StaleEndedIn({"Dashboard", "CommandPalette", "Help"}) =>
         /\ state'.mode = state.mode
         /\ state'.layout.preset = state.layout.preset]_vars

\* C31 for a stale FocusModeEnded that is handled in the Dashboard.
C31_StaleEndedInDashboard ==
    [][StaleEndedIn({"Dashboard"}) =>
         /\ state'.mode = state.mode
         /\ state'.layout.preset = state.layout.preset]_vars

\* A stale FocusModeEnded has been handled in the Dashboard.
C31_DashboardWitness ==
    /\ handled.event.type = "FocusModeEnded"
    /\ handled.mode = "Dashboard"
    /\ state.mode = Dashboard

\* The step starts the execution of a command in a task.
ExecutionStarts == \E k \in Tasks : tasks[k].pc # "executing" /\ tasks'[k].pc = "executing"

(***************************************************************************)
(* C32: From the initial state, under every sequence of events, the mode   *)
(* is always one of Dashboard, CommandPalette, Help or FocusMode: Confirm, *)
(* Terminal and SecretInput are never reached, so no action ever passes    *)
(* through a confirmation step before it is executed.                      *)
(***************************************************************************)
C32_NoConfirmation ==
    /\ [](state.mode.tag \in {"Dashboard", "CommandPalette", "Help", "FocusMode"})
    /\ [][ExecutionStarts =>
            /\ handled'.mode \in {"Dashboard", "CommandPalette"}
            /\ \A i \in 1..Len(handled'.updates) :
                  handled'.updates[i].mode \in {"Dashboard", "CommandPalette"}]_vars

\* A command was started by the enter key in the palette, and another
\* event has been handled since; the mode is one of the four.
C32_Witness ==
    /\ \E k \in Tasks : tasks[k].pc = "executing"
    /\ handled.event = Event_Key(KeyBindings.focus)
    /\ state.mode.tag = "FocusMode"

(***************************************************************************)
(* C33: execute() eventually returns after the child process exits for     *)
(* every behaviour of the sink's receiver: drained continuously, dropped,  *)
(* or kept open but never read (as in handle_confirm_key, where the        *)
(* receiver of the capacity-100 channel is held and never polled); the     *)
(* bounded sink never makes the reader thread, and so the join in          *)
(* execute_with_pty, block forever.                                        *)
(***************************************************************************)
C33_ExecuteReturns ==
    (exec.child.pc = "exited") ~> (exec.result.returned # "no")

\* C33 for a receiver that drains the sink or is dropped.
C33_ReturnsWhenDrainedOrDropped ==
    (exec.child.pc = "exited" /\ call.receiver \in {"draining", "dropped"})
        ~> (exec.result.returned # "no")

\* The child has exited, the sink is full, its receiver is held, and the
\* reader thread has a line to push: no thread can take a step.
C33_Blocked ==
    /\ call.fn = "sink"
    /\ call.receiver = "held"
    /\ exec.child.pc = "exited"
    /\ exec.main = "join"
    /\ exec.reader = "reading"
    /\ exec.pty # <<>>
    /\ valid_utf8(Head(exec.pty))
    /\ Len(exec.chan) = exec.capacity

\* What execution k has in the output panel, in the panel's order.
PanelOf(k) ==
    LET contents == [i \in 1..Len(state.panels.output.lines) |->
                        state.panels.output.lines[i].content]
    IN SelectSeq(contents, LAMBDA line : line.task = k)

(***************************************************************************)
(* C34: For each action execution started by the orchestrator, its output  *)
(* lines appear in the output panel in the order the reader thread pushed  *)
(* them, and its completion line ("Completed in ..." or "Failed with code  *)
(* ...") is appended after every one of its output lines, also when        *)
(* several executions run concurrently and their lines interleave.         *)
(***************************************************************************)
C34_OutputInOrder ==
    call.fn = "executions" =>
        \A k \in Executions :
           \A j \in 1..Len(PanelOf(k)) :
              IF PanelOf(k)[j].text = "line"
              THEN PanelOf(k)[j].seq = j
              ELSE /\ PanelOf(k)[j].text \in {"Completed", "Failed with code"}
                   /\ j = Len(PanelOf(k))
                   /\ j = call.ex[k].total + 1

\* Both executions have completed, one with success and one without, and
\* the panel begins with a line of the second between two lines of the
\* first.
C34_Witness ==
    /\ call.fn = "executions"
    /\ call.ex[1].pc = "completed"
    /\ call.ex[2].pc = "completed"
    /\ Len(state.panels.output.lines) = 2 * MaxChildLines + 2
    /\ state.panels.output.lines[1].content = LineOf(1, 1, "line")
    /\ state.panels.output.lines[2].content = LineOf(2, 1, "line")
    /\ state.panels.output.lines[3].content = LineOf(1, 2, "line")
    /\ \E i, j \in 1..Len(state.panels.output.lines) :
          /\ state.panels.output.lines[i].content.text = "Completed"
          /\ state.panels.output.lines[j].content.text = "Failed with code"

\* shutdown has run: the terminal is restored and no controller is held.
ShutDown == run.shutdown /\ app.focus_controller = 0

(***************************************************************************)
(* C35: Whenever App::run returns after setup_terminal has succeeded,      *)
(* shutdown has been executed (raw mode disabled, alternate screen left, a *)
(* live focus controller exited), on the normal quit path, when event_loop *)
(* returns an error, and when a step before the event loop fails (the      *)
(* initial render).                                                        *)
(***************************************************************************)
C35_ShutdownOnEveryReturn == run.pc = "returned" => ShutDown

\* C35 for the returns that follow the event loop.
C35_ShutdownAfterLoop ==
    (run.pc = "returned" /\ run.exit # "startup") =>
        /\ ShutDown
        /\ \A t \in Timers : timers[t].pc = "running" => timers[t].cancel # "open"

\* run() has returned the Err of a failed draw from the event loop, in
\* focus mode, and shutdown has run.
C35_ErrorWitness ==
    /\ run.pc = "returned"
    /\ run.result = "Err"
    /\ run.exit = "error"
    /\ state.mode.tag = "FocusMode"
    /\ ShutDown

(***************************************************************************)
(* C36: No task ever calls StateStore.update (exclusive lock) while it     *)
(* still holds a read guard obtained from StateStore.read on the same      *)
(* store: every read guard taken by the orchestrator (handle_key,          *)
(* navigate_up/down, handle_confirm_key, execute_selected_action,          *)
(* refresh_ports) is released before the next update, so the store cannot  *)
(* self-deadlock.                                                          *)
(***************************************************************************)
C36_NoUpdateUnderReadGuard ==
    call.fn = "handler" =>
        /\ (call.todo # <<>> /\ Head(call.todo) \notin {"read", "drop"}) =>
              /\ call.guards = 0
              /\ Orchestrator \notin lock.readers
        /\ call.guards <= 1
        /\ \A c \in Collectors : c \notin lock.readers

\* refresh_ports has made its first update, read the expected ports and
\* dropped the guard, and its second update holds the write lock, after an
\* output collector's update.
C36_Witness ==
    /\ call.fn = "handler"
    /\ call.name = "refresh_ports"
    /\ call.todo = <<"scanned">>
    /\ call.writing
    /\ lock = [writer |-> Orchestrator, readers |-> {}]
    /\ order # <<>>

(***************************************************************************)
(* C37: In every reachable state, filtered_indices is exactly the          *)
(* ascending list of indices of actions whose name, command or description *)
(* contains the current filter case-insensitively (all indices when the    *)
(* filter is empty), so every entry is a valid index into actions; this    *)
(* holds after typing, backspace, escape, and a project reload that        *)
(* replaces the action list.                                               *)
(***************************************************************************)
Matching(ap) ==
    {i \in 0..(Len(ap.actions) - 1) :
        LET a == ap.actions[i + 1]
            f == to_lowercase(ap.filter)
        IN \/ ap.filter = <<>>
           \/ contains(to_lowercase(chars(a.name)), f)
           \/ contains(to_lowercase(chars(a.command)), f)
           \/ (a.has_description /\ contains(to_lowercase(chars(a.description)), f))}

C37_FilteredIndicesMatch ==
    LET ap == state.panels.actions
        fi == ap.filtered_indices
    IN /\ {fi[j] : j \in 1..Len(fi)} = Matching(ap)
       /\ \A j \in 1..(Len(fi) - 1) : fi[j] < fi[j + 1]
       /\ \A j \in 1..Len(fi) : fi[j] >= 0 /\ fi[j] < Len(ap.actions)

\* After a reload that replaced the action list by a shorter one, an
\* upper-case filter is typed with the palette open, which some actions
\* match and others do not.
C37_Witness ==
    LET ap == state.panels.actions
    IN /\ state.mode = CommandPalette
       /\ ap.filter = <<"T">>
       /\ Len(ap.actions) < Len(system_actions) + MaxScripts
       /\ Len(ap.filtered_indices) > 0
       /\ Len(ap.filtered_indices) < Len(ap.actions)

(***************************************************************************)
(* C38: Once auto_scroll of the output panel has become false, no sequence *)
(* of operations (Down navigation to the last line, appended output lines, *)
(* mode changes, project reload) sets it back to true, and from then on    *)
(* appended lines never move scroll_offset.                                *)
(***************************************************************************)
C38_AutoScrollStaysOff ==
    [][~state.panels.output.auto_scroll =>
          /\ ~state'.panels.output.auto_scroll
          /\ (state'.panels.output.lines # state.panels.output.lines =>
                 state'.panels.output.scroll_offset = state.panels.output.scroll_offset)]_vars

\* With auto_scroll off, the panel was scrolled down to its last line, the
\* palette was opened and closed, and a reload has appended two lines: the
\* offset is where it was, two lines above the last one.
C38_Witness ==
    LET o == state.panels.output
    IN /\ ~o.auto_scroll
       /\ handled.event = Event_Key(KeyBindings.refresh)
       /\ Len(o.lines) > 4
       /\ o.scroll_offset = Len(o.lines) - 3
       /\ state.mode = Dashboard

(***************************************************************************)
(* C39: After any sequence of OutputPanelState.push calls, lines.len() <=  *)
(* max_lines (1000); when a push would exceed the bound exactly the oldest *)
(* line is dropped, so the panel always holds the most recent              *)
(* min(n, max_lines) lines in push order.                                  *)
(***************************************************************************)
C39_MostRecentLines ==
    call.fn = "pushes" =>
        LET o == state.panels.output
            held == IF call.pushed < OutputMaxLines THEN call.pushed ELSE OutputMaxLines
        IN /\ Len(o.lines) <= o.max_lines
           /\ o.max_lines = OutputMaxLines
           /\ Len(o.lines) = held
           /\ \A i \in 1..held : o.lines[i].content = call.pushed - held + i
           /\ (call.pushed > call.first => o.lines[held].stream = call.last)

\* Two pushes on the full panel: the lines 1 and 2 are gone, and the panel
\* holds the lines 3 to max_lines + 2.
C39_Witness ==
    /\ call.fn = "pushes"
    /\ call.pushed = OutputMaxLines + 2
    /\ Len(state.panels.output.lines) = OutputMaxLines
    /\ state.panels.output.lines[1].content = 3
    /\ state.panels.output.lines[OutputMaxLines].content = OutputMaxLines + 2

(***************************************************************************)
(* C40: For every u32 duration_minutes, the three computations of the      *)
(* session's total seconds agree without overflow: the initial             *)
(* remaining_seconds stored in AppMode::FocusMode (duration * 60),         *)
(* FocusSession.remaining_seconds at elapsed 0 (duration_minutes * 60),    *)
(* and the timer task's total_seconds (duration_minutes.saturating_mul(60)).*)
(***************************************************************************)
TotalsAgree ==
    /\ ~call.mode.panicked
    /\ ~call.session.panicked
    /\ call.mode.value = call.task.value
    /\ call.session.value = call.task.value

C40_TotalsAgree ==
    (call.fn = "totals" /\ call.computed = {"mode", "session", "task"}) => TotalsAgree

\* The three agree for every duration whose seconds fit 32 bits.
C40_FittingTotalsAgree ==
    (/\ call.fn = "totals"
     /\ call.computed = {"mode", "session", "task"}
     /\ ~u32_lt(LastFitting, call.duration_minutes)) => TotalsAgree

\* The three totals of the longest session whose seconds fit.
C40_FittingWitness ==
    /\ call.fn = "totals"
    /\ call.computed = {"mode", "session", "task"}
    /\ call.duration_minutes = LastFitting
    /\ call.task.value = times_60(LastFitting)

=============================================================================
